---------------------------- MODULE Spec2Model ----------------------------
(***************************************************************************)
(* Model of the GetX Locale extension: the translation provider manager    *)
(* (api/translation-provider.ts), the locale file merge and the            *)
(* translate-and-write pipeline (utils/translation.ts).                    *)
(*                                                                         *)
(* Strings are sequences of Unicode code points, so that the regular       *)
(* expressions and String.replace of the source are computed character by  *)
(* character.                                                              *)
(***************************************************************************)
EXTENDS Integers, Sequences, FiniteSets, TLC

(***************************************************************************)
(* Bounds of the model.                                                    *)
(***************************************************************************)
\* number of distinct provider identifiers that can be registered
MaxProviders == 2

\* number of distinct keys an invocation can be given
MaxKeys == 3

\* the count of manager.translate calls made for one key stops at this value
MaxAttempts == 3

\* a locale file longer than this is not merged into again
MaxContent == 70

\* number of pieces a scanned text is made of
MaxPieces == 5

\* number of paths the glob patterns find
MaxFiles == 2

\* length of the content a backend answers with
MaxText == 4

VARIABLES
  providers,           \* TranslationProviderManager.providers: Map in insertion order
  currentProvider,     \* TranslationProviderManager.currentProvider
  translationProvider, \* persisted setting getx-locale.translationProvider
  mpc,                 \* position inside TranslationProviderManager.translate
  mframe,              \* locals of the running manager.translate call
  mcalls,              \* provider.translate invocations of the running/last call
  mresult,             \* settled promise of the last manager.translate call
  lastError,           \* error thrown by the last manager operation
  disk,                \* content of every locale file, by path
  englishTranslations, \* module-level English fallback table
  lastMerge,           \* outcome of the last addKeysToTranslationFile call
  secrets,             \* provider ids whose API key is in the secret storage
  workspace,           \* locale files of the workspace, in discovery order
  translationCache,    \* module-level translation cache
  opc,                 \* position inside addKeysWithTranslation
  oframe,              \* locals of addKeysWithTranslation
  aframe,              \* locals of the running addKeysToTranslationFile
  tframe,              \* the running translateText request
  tthist,              \* per (text, locale): what the translateText calls did
  report,              \* the information message that ends the invocation
  lastCall,            \* the last call of a function run on its own: arguments, result
  secretStorage,       \* context.secrets: the API key stored for each provider
  overlapping          \* the frames of two command invocations that overlap

mgrVars == <<providers, currentProvider, translationProvider, mpc, mframe,
             mcalls, mresult, lastError>>

fileVars == <<disk, englishTranslations, lastMerge>>

orchVars == <<secrets, workspace, translationCache, opc, oframe, aframe,
              tframe, tthist, report>>

auxVars == <<lastCall, secretStorage, overlapping>>

vars == <<mgrVars, fileVars, orchVars, auxVars>>

(***************************************************************************)
(* Provider identifiers and provider instances.                            *)
(***************************************************************************)
AllProviderIds == <<"openai", "groq", "p3", "p4", "p5">>

ProviderIds == {AllProviderIds[i] : i \in 1..MaxProviders}

\* value of currentProvider when no provider is selected
Undefined == "undefined"

\* credentials a provider instance can be constructed with
EmptyKey == "empty"

SomeKey == "key"

ApiKeys == {EmptyKey, SomeKey}

\* behaviour of the backend behind one provider instance
BackendModes == {"up", "down", "flaky"}

\* HTTP status carried by a rejected translate; NoStatus is an error without
\* statusCode (timeout, network error, unparsable or empty response)
NoStatus == 0

StatusCodes == {400, 401, 429, 500, NoStatus}

\* a provider instance: the credential it holds and the backend it talks to;
\* a backend never accepts an empty credential
ProviderInstances ==
  {p \in [apiKey : ApiKeys, mode : BackendModes] :
      p.apiKey = EmptyKey => p.mode = "down"}

\* TranslationProvider.isAvailable
IsAvailable(p) == p.apiKey # EmptyKey

----------------------------------------------------------------------------
(***************************************************************************)
(* The providers Map: a sequence of entries [id, p] in insertion order.    *)
(***************************************************************************)
MapHas(m, id) == \E i \in 1..Len(m) : m[i].id = id

MapIndex(m, id) == CHOOSE i \in 1..Len(m) : m[i].id = id

MapGet(m, id) == m[MapIndex(m, id)].p

\* Map.set: an existing key keeps its position, a new key is appended
MapSet(m, id, p) ==
  IF MapHas(m, id)
    THEN [m EXCEPT ![MapIndex(m, id)] = [id |-> id, p |-> p]]
    ELSE Append(m, [id |-> id, p |-> p])

\* Map.delete
MapDelete(m, id) ==
  IF MapHas(m, id)
    THEN LET k == MapIndex(m, id)
         IN  SubSeq(m, 1, k - 1) \o SubSeq(m, k + 1, Len(m))
    ELSE m

\* Map.keys, in insertion order
MapKeys(m) == [i \in 1..Len(m) |-> m[i].id]

----------------------------------------------------------------------------
(***************************************************************************)
(* TranslationProviderManager                                              *)
(***************************************************************************)
NoResult == [kind |-> "none", text |-> <<>>, statusCode |-> NoStatus,
             by |-> Undefined, call |-> 0]

NoFrame == [text |-> <<>>, provider |-> Undefined, pos |-> 0,
            error |-> NoResult]

\* no function is run on its own
NoCall == [fn |-> "none", returned |-> FALSE]

\* context.secrets.get gives undefined
NoKey == [name |-> "none", prefix |-> FALSE, long |-> FALSE, accepted |-> FALSE]

\* the secret storage without a key
NoSecrets == [id \in {"openai", "groq"} |-> NoKey]

NoKeySetup == secretStorage = NoSecrets

NoOverlap == overlapping = <<>>

\* variant: the provider registered last always becomes the current one
registerProviderTakesOver(id, p) ==
  /\ providers' = MapSet(providers, id, p)
  /\ currentProvider' = id

\* registerProvider(id, provider)
registerProvider(id, p) ==
  /\ providers' = MapSet(providers, id, p)
  /\ currentProvider' =
       IF currentProvider = Undefined THEN id ELSE currentProvider

\* variant: the entry is deleted but the current pointer is kept
unregisterProviderKeepCurrent(id) ==
  /\ currentProvider' = currentProvider
  /\ providers' = MapDelete(providers, id)

\* variant: when the current provider is unregistered, the first provider
\* left in the registry becomes current
unregisterProviderPromote(id) ==
  /\ currentProvider' =
       IF currentProvider = id
         THEN IF MapDelete(providers, id) = <<>>
                THEN Undefined ELSE MapDelete(providers, id)[1].id
         ELSE currentProvider
  /\ providers' = MapDelete(providers, id)

\* unregisterProvider(id)
unregisterProvider(id) ==
  /\ currentProvider' =
       IF currentProvider = id THEN Undefined ELSE currentProvider
  /\ providers' = MapDelete(providers, id)

\* variant: a registered provider is selected whether it is available or not
setCurrentProviderUnchecked(id) ==
  IF ~MapHas(providers, id)
    THEN /\ lastError' = "not found"
         /\ UNCHANGED <<currentProvider, translationProvider>>
    ELSE /\ currentProvider' = id
         /\ translationProvider' = id
         /\ lastError' = "none"

\* setCurrentProvider(id): throws 'not found' or 'not available', otherwise
\* selects id and persists the choice
setCurrentProvider(id) ==
  IF ~MapHas(providers, id)
    THEN /\ lastError' = "not found"
         /\ UNCHANGED <<currentProvider, translationProvider>>
    ELSE IF IsAvailable(MapGet(providers, id))
      THEN /\ currentProvider' = id
           /\ translationProvider' = id
           /\ lastError' = "none"
      ELSE /\ lastError' = "not available"
           /\ UNCHANGED <<currentProvider, translationProvider>>


----------------------------------------------------------------------------
(***************************************************************************)
(* Code points and the strings providers can answer with.                  *)
(***************************************************************************)
\* "hola": Latin letters only
txtLatin == <<104, 111, 108, 97>>

\* U+0645 U+0631: Arabic script
txtArabic == <<1605, 1585>>

\* U+4F60: a CJK ideograph
txtCJK == <<20320>>

\* the empty string (also stands for an undefined result)
txtEmpty == <<>>

\* sanitised texts a provider's translate can resolve with
ProviderTexts == {txtLatin, txtArabic, txtCJK, txtEmpty}

\* what one provider.translate call can settle with, given the instance
ProviderOutcomes(p) ==
  (IF p.mode \in {"up", "flaky"}
     THEN {[ok |-> TRUE, text |-> t, statusCode |-> NoStatus] : t \in ProviderTexts}
     ELSE {})
  \cup
  (IF p.mode \in {"down", "flaky"}
     THEN {[ok |-> FALSE, text |-> txtEmpty, statusCode |-> s] : s \in StatusCodes}
     ELSE {})

----------------------------------------------------------------------------
(***************************************************************************)
(* TranslationProviderManager.translate, one step per awaited              *)
(* provider.translate.                                                     *)
(***************************************************************************)
\* variant: the fallback loop only looks at the entries registered after the
\* current provider
NextFallbackAfterCurrent(m, cur, from) ==
  LET start == IF MapHas(m, cur) THEN MapIndex(m, cur) + 1 ELSE from
      cand == {i \in start..Len(m) : i >= from /\ IsAvailable(m[i].p)}
  IN  IF cand = {} THEN 0
      ELSE CHOOSE i \in cand : \A j \in cand : i <= j

\* first entry at or after position from that the fallback loop tries, given
\* the value of this.currentProvider at that moment; 0 when the loop ends
NextFallback(m, cur, from) ==
  LET cand == {i \in from..Len(m) : m[i].id # cur /\ IsAvailable(m[i].p)}
  IN  IF cand = {} THEN 0
      ELSE CHOOSE i \in cand : \A j \in cand : i <= j

\* entry of translate: the guard of lines 195-199, then the awaited call of
\* the current provider (targetLanguage is only forwarded to the provider)
MgrTranslateBegin(text) ==
  IF currentProvider = Undefined \/ ~MapHas(providers, currentProvider)
    THEN /\ mpc' = "returned"
         /\ mresult' = [NoResult EXCEPT !.kind = "error"]
         /\ lastError' = "not configured"
         /\ mframe' = NoFrame
         /\ mcalls' = <<>>
         /\ UNCHANGED <<providers, currentProvider, translationProvider>>
    ELSE /\ mpc' = "awaitCurrent"
         /\ mframe' = [NoFrame EXCEPT !.text = text,
                                      !.provider = currentProvider]
         /\ mcalls' = <<[id |-> currentProvider, ok |-> FALSE,
                         statusCode |-> NoStatus, settled |-> FALSE]>>
         /\ mresult' = NoResult
         /\ lastError' = "none"
         /\ UNCHANGED <<providers, currentProvider, translationProvider>>

\* variant: the manager goes on while the call is still in flight
SettleLastPending(o) == mcalls

\* the call log with its last (pending) call settled by outcome o
SettleLast(o) ==
  [mcalls EXCEPT ![Len(mcalls)] =
     [id |-> mcalls[Len(mcalls)].id, ok |-> o.ok,
      statusCode |-> o.statusCode, settled |-> TRUE]]

\* variant: the error of the last failed fallback is thrown
RethrownErrorLast(first, last) == last

\* the error thrown when no provider succeeds (line 218): the one caught from
\* the first call, whatever the last fallback failed with
RethrownError(first, last) == first

\* the fallback loop from position from on: switch to the next candidate and
\* await its translate, or rethrow the error of the first call
MgrFallbackLoop(calls, error, from) ==
  LET j == NextFallback(providers, currentProvider, from)
      last == calls[Len(calls)]
  IN  IF j = 0
        THEN /\ mpc' = "returned"
             /\ mresult' = RethrownError(error,
                              [kind |-> "error", text |-> txtEmpty,
                               statusCode |-> last.statusCode,
                               by |-> last.id, call |-> Len(calls)])
             /\ lastError' = "translate failed"
             /\ mcalls' = calls
             /\ mframe' = [mframe EXCEPT !.error = error]
             /\ UNCHANGED currentProvider
        ELSE /\ currentProvider' = providers[j].id
             /\ mpc' = "awaitFallback"
             /\ mframe' = [mframe EXCEPT !.error = error, !.pos = j]
             /\ mcalls' = Append(calls, [id |-> providers[j].id, ok |-> FALSE,
                                         statusCode |-> NoStatus,
                                         settled |-> FALSE])
             /\ UNCHANGED <<mresult, lastError>>

\* the current provider's translate settles (lines 202-204)
MgrCurrentSettles ==
  /\ mpc = "awaitCurrent"
  /\ MapHas(providers, mframe.provider)
  /\ \E o \in ProviderOutcomes(MapGet(providers, mframe.provider)) :
       IF o.ok
         THEN /\ mpc' = "returned"
              /\ mresult' = [kind |-> "value", text |-> o.text,
                             statusCode |-> NoStatus,
                             by |-> mframe.provider, call |-> 1]
              /\ mcalls' = SettleLast(o)
              /\ UNCHANGED <<currentProvider, mframe, lastError>>
         ELSE MgrFallbackLoop(SettleLast(o),
                              [kind |-> "error", text |-> txtEmpty,
                               statusCode |-> o.statusCode,
                               by |-> mframe.provider, call |-> 1],
                              1)
  /\ UNCHANGED <<providers, translationProvider>>

\* a fallback provider's translate settles (lines 211-215)
MgrFallbackSettles ==
  /\ mpc = "awaitFallback"
  /\ \E o \in ProviderOutcomes(providers[mframe.pos].p) :
       IF o.ok
         THEN /\ mpc' = "returned"
              /\ mresult' = [kind |-> "value", text |-> o.text,
                             statusCode |-> NoStatus,
                             by |-> providers[mframe.pos].id,
                             call |-> Len(mcalls)]
              /\ mcalls' = SettleLast(o)
              /\ UNCHANGED <<currentProvider, mframe, lastError>>
         ELSE MgrFallbackLoop(SettleLast(o), mframe.error, mframe.pos + 1)
  /\ UNCHANGED <<providers, translationProvider>>

----------------------------------------------------------------------------
(***************************************************************************)
(* Strings: sequences of code points, with the pieces of the JavaScript    *)
(* regular expression and String semantics that the source relies on.      *)
(***************************************************************************)
\* \s of a JavaScript regular expression, also the set trimmed by trim()
IsSpace(c) ==
  \/ c \in {9, 10, 11, 12, 13, 32, 160, 5760, 8232, 8233, 8239, 8287, 12288, 65279}
  \/ c \in 8192..8202

\* \w
IsWordChar(c) == c \in 48..57 \/ c \in 65..90 \/ c = 95 \/ c \in 97..122

\* ["']
IsQuote(c) == c \in {34, 39}

\* [^"']
NotQuote(c) == ~IsQuote(c)

\* [^}]
NotCloseBrace(c) == c # 125

\* Body applied to the value of v: v is evaluated once, whatever the number
\* of places Body uses it in
With(v, Body(_)) == CHOOSE r \in {Body(x) : x \in {v}} : TRUE

\* the least element of a non-empty set of positions
Least(positions) ==
  With(positions, LAMBDA P : CHOOSE i \in P : \A j \in P : i <= j)

\* greedy run of a character class from position i: the first position at or
\* after i that is not in the class (Len(s) + 1 at the end of the string)
Skip(InClass(_), s, i) ==
  With(i, LAMBDA from :
    IF from > Len(s) THEN from
    ELSE With({j \in from..Len(s) : ~InClass(s[j])}, LAMBDA stop :
           IF stop = {} THEN Len(s) + 1 ELSE Least(stop)))

\* the literal lit occurs in s at position i
StartsAt(s, i, lit) ==
  /\ i >= 1
  /\ i + Len(lit) - 1 <= Len(s)
  /\ \A k \in 1..Len(lit) : s[i + k - 1] = lit[k]

\* String.indexOf + 1: the first position where pat occurs, 0 if none; the
\* empty pattern occurs at position 1
IndexOf(s, pat) ==
  With({i \in 1..(Len(s) + 1) : StartsAt(s, i, pat)}, LAMBDA occ :
    IF occ = {} THEN 0 ELSE Least(occ))

\* String.trim().length > 0
TrimNonEmpty(s) == \E i \in 1..Len(s) : ~IsSpace(s[i])

\* GetSubstitution for a string pattern: $$, $&, $` and $' in the replacement
\* are substituted from left to right, every other character is copied
RECURSIVE GetSubstitution(_, _, _, _)
GetSubstitution(replacement, matched, before, after) ==
  With(replacement, LAMBDA repl :
  With({i \in 1..(Len(repl) - 1) :
          repl[i] = 36 /\ repl[i + 1] \in {36, 38, 96, 39}}, LAMBDA dollars :
    IF dollars = {} THEN repl
    ELSE With(Least(dollars), LAMBDA i :
           SubSeq(repl, 1, i - 1)
           \o (CASE repl[i + 1] = 36 -> <<36>>
                 [] repl[i + 1] = 38 -> matched
                 [] repl[i + 1] = 96 -> before
                 [] repl[i + 1] = 39 -> after)
           \o GetSubstitution(SubSeq(repl, i + 2, Len(repl)),
                              matched, before, after))))

\* String.prototype.replace(pattern: string, replacement: string): only the
\* first occurrence is replaced
StringReplace(s, pat, repl) ==
  With(IndexOf(s, pat), LAMBDA i :
    IF i = 0 THEN s
    ELSE With(SubSeq(s, 1, i - 1), LAMBDA before :
         With(SubSeq(s, i + Len(pat), Len(s)), LAMBDA after :
           before \o GetSubstitution(repl, pat, before, after) \o after)))

\* Array.join
RECURSIVE Join(_, _)
Join(list, sep) ==
  With(list, LAMBDA parts :
    IF parts = <<>> THEN <<>>
    ELSE IF Len(parts) = 1 THEN parts[1]
    ELSE parts[1] \o sep \o Join(Tail(parts), sep))

\* Array.includes
Includes(list, x) == \E i \in 1..Len(list) : list[i] = x

\* Math.min
Min2(a, b) == IF a <= b THEN a ELSE b

----------------------------------------------------------------------------
(***************************************************************************)
(* Locale Store Codec: the regular expressions of addKeysToTranslationFile *)
(* and extractExistingKeys.                                                *)
(***************************************************************************)
\* "Map<String,"
litMapString == <<77, 97, 112, 60, 83, 116, 114, 105, 110, 103, 44>>

\* "String>"
litStringGt == <<83, 116, 114, 105, 110, 103, 62>>

\* the result of a regular expression that does not match
NoMatch == [ok |-> FALSE, from |-> 0, open |-> 0, close |-> 0]

\* mapRegex /Map<String,\s*String>\s+\w+\s*=\s*{([^}]*)}/s tried at position i;
\* open and close are the positions of the braces
MapRegexAt(s, i) ==
  IF ~StartsAt(s, i, litMapString) THEN NoMatch
  ELSE
  With(Skip(IsSpace, s, i + Len(litMapString)), LAMBDA b :
  With(Skip(IsSpace, s, b + Len(litStringGt)), LAMBDA d :
  With(Skip(IsWordChar, s, d), LAMBDA e :
  With(Skip(IsSpace, s, e), LAMBDA f :
  With(Skip(IsSpace, s, f + 1), LAMBDA g :
  With(Skip(NotCloseBrace, s, g + 1), LAMBDA h :
    IF /\ StartsAt(s, b, litStringGt)
       /\ d > b + Len(litStringGt)
       /\ e > d
       /\ f <= Len(s) /\ s[f] = 61
       /\ g <= Len(s) /\ s[g] = 123
       /\ h <= Len(s)
      THEN [ok |-> TRUE, from |-> i, open |-> g, close |-> h]
      ELSE NoMatch))))))

\* content.match(mapRegex): the leftmost match
MapRegex(s) ==
  With({i \in 1..Len(s) : MapRegexAt(s, i).ok}, LAMBDA occ :
    IF occ = {} THEN NoMatch ELSE MapRegexAt(s, Least(occ)))

\* the result of the key pattern when it does not match
NoKeyMatch == [ok |-> FALSE, key |-> <<>>, value |-> <<>>, end |-> 0]

\* keyRegex /["']([^"']+)["']\s*:\s*["'][^"']*["']/ tried at position i; with
\* needValue the value group is [^"']+ as in the regular expression that
\* fills the English table
KeyRegexAt(s, i, needValue) ==
  IF ~(i >= 1 /\ i <= Len(s) /\ IsQuote(s[i])) THEN NoKeyMatch
  ELSE
  With(Skip(NotQuote, s, i + 1), LAMBDA j :
  With(Skip(IsSpace, s, j + 1), LAMBDA k :
  With(Skip(IsSpace, s, k + 1), LAMBDA l :
  With(Skip(NotQuote, s, l + 1), LAMBDA m :
    IF /\ j > i + 1
       /\ j <= Len(s)
       /\ k <= Len(s) /\ s[k] = 58
       /\ l <= Len(s) /\ IsQuote(s[l])
       /\ m <= Len(s)
       /\ needValue => m > l + 1
      THEN [ok |-> TRUE, key |-> SubSeq(s, i + 1, j - 1),
            value |-> SubSeq(s, l + 1, m - 1), end |-> m]
      ELSE NoKeyMatch))))

\* the matches of the global regular expression from position from on, each
\* search starting after the end of the previous match
RECURSIVE KeyRegexMatches(_, _, _)
KeyRegexMatches(content, from, needValue) ==
  With(content, LAMBDA s :
  With({i \in from..Len(s) : KeyRegexAt(s, i, needValue).ok}, LAMBDA occ :
    IF occ = {} THEN <<>>
    ELSE With(KeyRegexAt(s, Least(occ), needValue), LAMBDA m :
           <<[key |-> m.key, value |-> m.value]>>
           \o KeyRegexMatches(s, m.end + 1, needValue))))

\* extractExistingKeys(content)
extractExistingKeys(content) ==
  With(KeyRegexMatches(content, 1, FALSE), LAMBDA ms :
    [i \in 1..Len(ms) |-> ms[i].key])

\* one line of newEntries: two spaces, "key": "value"
Entry(key, value) ==
  <<32, 32, 34>> \o key \o <<34, 58, 32, 34>> \o value \o <<34>>

\* variant: every supplied key counts as new
NewKeysAll(content, keys) == keys

\* newKeys of addKeysToTranslationFile: the supplied keys that are not among
\* the existing ones, in the order supplied
NewKeys(content, keys) ==
  With(extractExistingKeys(content), LAMBDA existingKeys :
    SelectSeq(keys, LAMBDA key : ~Includes(existingKeys, key)))

\* updatedContent of addKeysToTranslationFile (lines 434-447): the match of
\* mapRegex is replaced by the match in which the captured group p1 has been
\* replaced, with String.replace, by the enlarged group
UpdatedContent(content, newEntries) ==
  With(MapRegex(content), LAMBDA m :
  With(SubSeq(content, m.from, m.close), LAMBDA match :
  With(SubSeq(content, m.open + 1, m.close - 1), LAMBDA p1 :
  With(Join(newEntries, <<44, 10>>), LAMBDA newEntriesStr :
  With(IF TrimNonEmpty(p1)
         THEN p1 \o <<44, 10>> \o newEntriesStr \o <<10>>
         ELSE <<10>> \o newEntriesStr \o <<10>>, LAMBDA enlarged :
    SubSeq(content, 1, m.from - 1)
    \o StringReplace(match, p1, enlarged)
    \o SubSeq(content, m.close + 1, Len(content)))))))

----------------------------------------------------------------------------
(***************************************************************************)
(* Keys, locale files and their initial contents.                          *)
(***************************************************************************)
\* "hello", "hi", "bye", "ok", "yes"
AllKeys == << <<104, 101, 108, 108, 111>>, <<104, 105>>, <<98, 121, 101>>,
              <<111, 107>>, <<121, 101, 115>> >>

\* "$$": a key holding two dollar signs (any quoted text before .tr is a key)
keyDollars == <<36, 36>>

\* the key lists handed to an invocation: duplicate free, as the extraction
\* leaves them
KeyLists ==
  ({SubSeq(AllKeys, a, b) : a \in 1..MaxKeys, b \in 1..MaxKeys} \ {<<>>})
  \cup {<<keyDollars>>}

\* Map<String, String> en = {};
tplEmpty ==
  <<77, 97, 112, 60, 83, 116, 114, 105, 110, 103, 44, 32, 83, 116, 114, 105,
    110, 103, 62, 32, 101, 110, 32, 61, 32, 123, 125, 59>>

\* Map<String, String> en = { };
tplSpace ==
  <<77, 97, 112, 60, 83, 116, 114, 105, 110, 103, 44, 32, 83, 116, 114, 105,
    110, 103, 62, 32, 101, 110, 32, 61, 32, 123, 32, 125, 59>>

\* Map<String, String> en = {\n};
tplBlank ==
  <<77, 97, 112, 60, 83, 116, 114, 105, 110, 103, 44, 32, 83, 116, 114, 105,
    110, 103, 62, 32, 101, 110, 32, 61, 32, 123, 10, 125, 59>>

\* Map<String, String> en = {\n  "hi": "Hi"\n};
tplOne ==
  <<77, 97, 112, 60, 83, 116, 114, 105, 110, 103, 44, 32, 83, 116, 114, 105,
    110, 103, 62, 32, 101, 110, 32, 61, 32, 123, 10, 32, 32, 34, 104, 105,
    34, 58, 32, 34, 72, 105, 34, 10, 125, 59>>

\* var x;   (a file without a table declaration)
tplNoMap == <<118, 97, 114, 32, 120, 59>>

Templates == {tplEmpty, tplSpace, tplBlank, tplOne, tplNoMap}

\* ".dart"
extDart == <<46, 100, 97, 114, 116>>

\* locale identifiers: en_US, en, fr, ar, ar_SA
locEnUS == <<101, 110, 95, 85, 83>>

locEn == <<101, 110>>

locFr == <<102, 114>>

locAr == <<97, 114>>

locArSA == <<97, 114, 95, 83, 65>>

\* a path: its directory and its file name
Path(dir, locale) == [dir |-> dir, base |-> locale \o extDart]

\* path.basename(file, ".dart")
Basename(path, ext) ==
  LET n == Len(path.base) - Len(ext)
  IN  IF n >= 1 /\ SubSeq(path.base, n + 1, Len(path.base)) = ext
        THEN SubSeq(path.base, 1, n)
        ELSE path.base

\* getLocaleFromFilename(filePath)
getLocaleFromFilename(path) == Basename(path, extDart)

----------------------------------------------------------------------------
(***************************************************************************)
(* addKeysToTranslationFile when no translation is requested: there is no  *)
(* await between the read and the write.                                   *)
(***************************************************************************)
NoMerge == [path |-> Path("none", <<>>), before |-> <<>>, keys |-> <<>>,
            useTranslation |-> FALSE, returned |-> 0, noMap |-> FALSE,
            wrote |-> FALSE]

\* englishTranslations[key] = key for every new key (line 429)
EnglishWithKeys(table, newKeys) ==
  [k \in DOMAIN table \cup {newKeys[i] : i \in 1..Len(newKeys)} |->
     IF Includes(newKeys, k) THEN k ELSE table[k]]

\* variant: a file without a table declaration gets the entries appended at
\* its end and no error is shown
MergeWithoutTranslateAnyway(content, table, path, keys, useTranslation) ==
  With(MapRegex(content), LAMBDA mapMatch :
  With(NewKeys(content, keys), LAMBDA newKeys :
  With([i \in 1..Len(newKeys) |-> Entry(newKeys[i], newKeys[i])],
       LAMBDA newEntries :
  With([NoMerge EXCEPT !.path = path, !.before = content, !.keys = keys,
                       !.useTranslation = useTranslation], LAMBDA call :
    IF newKeys = <<>>
      THEN [content |-> content, english |-> table, call |-> call]
    ELSE [content |-> IF mapMatch.ok
                        THEN UpdatedContent(content, newEntries)
                        ELSE content \o Join(newEntries, <<44, 10>>),
          english |-> EnglishWithKeys(table, newKeys),
          call |-> [call EXCEPT !.returned = Len(newKeys), !.wrote = TRUE]]))))

\* addKeysToTranslationFile taking the else branch of line 363 (lines
\* 426-432): the early returns, the entries with the key as value, the write;
\* the result is the new content, the new English table and the call record
MergeWithoutTranslate(content, table, path, keys, useTranslation) ==
  With(MapRegex(content), LAMBDA mapMatch :
  With(NewKeys(content, keys), LAMBDA newKeys :
  With([i \in 1..Len(newKeys) |-> Entry(newKeys[i], newKeys[i])],
       LAMBDA newEntries :
  With([NoMerge EXCEPT !.path = path, !.before = content, !.keys = keys,
                       !.useTranslation = useTranslation], LAMBDA call :
    IF ~mapMatch.ok
      THEN [content |-> content, english |-> table,
            call |-> [call EXCEPT !.noMap = TRUE]]
    ELSE IF newKeys = <<>>
      THEN [content |-> content, english |-> table, call |-> call]
    ELSE [content |-> UpdatedContent(content, newEntries),
          english |-> EnglishWithKeys(table, newKeys),
          call |-> [call EXCEPT !.returned = Len(newKeys), !.wrote = TRUE]]))))

----------------------------------------------------------------------------
(***************************************************************************)
(* isValidTranslationForLocale and the lookups of translateText.           *)
(***************************************************************************)
\* String.split("_")[0]
LanguageCode(locale) ==
  LET i == IndexOf(locale, <<95>>)
  IN  IF i = 0 THEN locale ELSE SubSeq(locale, 1, i - 1)

\* String.toLowerCase on one code point (ASCII and Latin-1 letters)
ToLowerChar(c) ==
  IF c \in 65..90 \/ (c \in 192..222 /\ c # 215) THEN c + 32 ELSE c

ToLower(s) == [i \in 1..Len(s) |-> ToLowerChar(s[i])]

\* the accented letters of the French and the Portuguese pattern
FrenchAccents == {224, 226, 228, 233, 232, 234, 235, 238, 239, 244, 246, 249,
                  251, 252, 255, 231, 339, 230}

PortugueseAccents == {225, 224, 226, 227, 233, 232, 234, 237, 236, 243, 242,
                      244, 245, 250, 249, 252, 231, 241}

\* the upper case partner a case-insensitive pattern also accepts
UpperPartner(c) ==
  IF c = 255 THEN 376 ELSE IF c = 339 THEN 338 ELSE c - 32

\* one character of /[a-z<accents>\s''"-]/i
InLatinClass(c, accents) ==
  \/ c \in 97..122 \/ c \in 65..90
  \/ c \in accents
  \/ \E a \in accents : c = UpperPartner(a)
  \/ IsSpace(c)
  \/ c \in {39, 34, 45}

\* [U+0600-U+06FF]
IsArabicScript(c) == c \in 1536..1791

\* [U+4E00-U+9FFF]
IsCJK(c) == c \in 19968..40959

\* variant: every translation is accepted for an Arabic-script locale
isValidTranslationForLocaleLax(translation, locale) ==
  LET lang == LanguageCode(locale)
  IN  IF ~TrimNonEmpty(translation) THEN FALSE
      ELSE IF lang = <<102, 114>>
        THEN \A i \in 1..Len(translation) : InLatinClass(translation[i], FrenchAccents)
      ELSE IF lang = <<97, 114>> THEN TRUE
      ELSE IF lang = <<122, 104>>
        THEN \E i \in 1..Len(translation) : IsCJK(translation[i])
      ELSE IF lang = <<117, 114>> THEN TRUE
      ELSE IF lang = <<112, 116>>
        THEN \A i \in 1..Len(translation) : InLatinClass(translation[i], PortugueseAccents)
      ELSE \/ ~\E i \in 1..Len(translation) :
                  IsArabicScript(translation[i]) \/ IsCJK(translation[i])
           \/ StartsAt(locale, 1, ToLower(SubSeq(translation, 1, Min2(2, Len(translation)))))

\* isValidTranslationForLocale(translation, locale); the cases are fr, ar, zh,
\* ur, pt and the default
isValidTranslationForLocale(translation, locale) ==
  LET lang == LanguageCode(locale)
  IN  IF ~TrimNonEmpty(translation) THEN FALSE
      ELSE IF lang = <<102, 114>>
        THEN \A i \in 1..Len(translation) : InLatinClass(translation[i], FrenchAccents)
      ELSE IF lang = <<97, 114>>
        THEN \E i \in 1..Len(translation) : IsArabicScript(translation[i])
      ELSE IF lang = <<122, 104>>
        THEN \E i \in 1..Len(translation) : IsCJK(translation[i])
      ELSE IF lang = <<117, 114>>
        THEN \E i \in 1..Len(translation) : IsArabicScript(translation[i])
      ELSE IF lang = <<112, 116>>
        THEN \A i \in 1..Len(translation) : InLatinClass(translation[i], PortugueseAccents)
      ELSE \/ ~\E i \in 1..Len(translation) :
                  IsArabicScript(translation[i]) \/ IsCJK(translation[i])
           \/ StartsAt(locale, 1, ToLower(SubSeq(translation, 1, Min2(2, Len(translation)))))

\* table[key] of a JavaScript object used as a map: the empty string stands
\* for undefined
Lookup(table, key) == IF key \in DOMAIN table THEN table[key] ELSE <<>>

\* table[key] = value
Store(table, key, value) ==
  [k \in DOMAIN table \cup {key} |-> IF k = key THEN value ELSE table[k]]

\* englishTranslations[key] || key
EnglishOrKey(table, key) ==
  IF Lookup(table, key) # <<>> THEN Lookup(table, key) ELSE key

\* `${text}:${locale}`
CacheKey(text, locale) == text \o <<58>> \o locale

\* variant: en_US is the only base locale
IsEnglishLocaleUS(locale) == locale = <<101, 110, 95, 85, 83>>

\* the base locales of lines 218-219 and 363
IsEnglishLocale(locale) ==
  locale = <<101, 110, 95, 85, 83>> \/ locale = <<101, 110>>

----------------------------------------------------------------------------
(***************************************************************************)
(* The orchestrator: addKeysWithTranslation, addKeysToTranslationFile with *)
(* translation and translateText, one step per suspension point.           *)
(***************************************************************************)
NoPath == Path("none", <<>>)

NoOFrame == [keys |-> <<>>, translationFiles |-> <<>>, idx |-> 0,
             addedCount |-> 0, errorCount |-> 0, enUsFile |-> NoPath,
             setups |-> 0]

NoAFrame == [path |-> NoPath, content |-> <<>>, locale |-> <<>>,
             newKeys |-> <<>>, i |-> 0, b |-> 0, translations |-> <<>>,
             newEntries |-> <<>>]

NoTFrame == [text |-> <<>>, locale |-> <<>>, attempts |-> 0]

NoReport == [shown |-> FALSE, addedCount |-> 0, files |-> 0, errorCount |-> 0]

\* batchSize of line 364
batchSize == 2

\* nothing of the orchestrator is running and its module state is fresh
NoOrchestrator ==
  /\ secrets = {}
  /\ workspace = <<>>
  /\ translationCache = <<>>
  /\ opc = "idle"
  /\ oframe = NoOFrame
  /\ aframe = NoAFrame
  /\ tframe = NoTFrame
  /\ tthist = <<>>
  /\ report = NoReport

\* the key lists of an invocation
OrchKeyLists ==
  {SubSeq(AllKeys, 1, b) : b \in 1..MaxKeys} \cup {<<AllKeys[2]>>}

\* the provider objects built from a stored key (lines 36-50 and the setup):
\* the OpenAI backend answers or fails in every way, the Groq backend always
\* answers with some text
OrchInstance(id) ==
  [apiKey |-> SomeKey, mode |-> IF id = "openai" THEN "flaky" ELSE "up"]

\* the command handlers hand over the extracted keys and the locale files
\* found (commands/index.ts lines 71 and 104)
Invoke ==
  /\ opc = "idle"
  /\ \E keys \in OrchKeyLists :
       oframe' = [NoOFrame EXCEPT !.keys = keys, !.translationFiles = workspace]
  /\ opc' = "init"
  /\ UNCHANGED <<mgrVars, fileVars, secrets, workspace, translationCache,
                 aframe, tframe, tthist, report>>

\* variant: the Groq provider is registered before the OpenAI provider
RegistryOfGroqFirst(sec) ==
  (IF "groq" \in sec
     THEN <<[id |-> "groq", p |-> OrchInstance("groq")]>> ELSE <<>>)
  \o (IF "openai" \in sec
        THEN <<[id |-> "openai", p |-> OrchInstance("openai")]>> ELSE <<>>)

\* the registry built by lines 36-50 from the stored credentials
RegistryOf(sec) ==
  (IF "openai" \in sec
     THEN <<[id |-> "openai", p |-> OrchInstance("openai")]>> ELSE <<>>)
  \o (IF "groq" \in sec
        THEN <<[id |-> "groq", p |-> OrchInstance("groq")]>> ELSE <<>>)

\* variant: the provider that was current stays current when it is
\* registered again
initializeTranslationProvidersCarryOver(sec) ==
  LET registry == RegistryOf(sec)
      chosen == IF MapHas(registry, currentProvider)
                  THEN currentProvider ELSE registry[1].id
  IN  /\ providers' = registry
      /\ IF registry = <<>>
           THEN /\ currentProvider' =
                     IF MapHas(providers, currentProvider)
                       THEN Undefined ELSE currentProvider
                /\ UNCHANGED translationProvider
           ELSE /\ currentProvider' = chosen
                /\ translationProvider' = chosen

\* the manager after initializeTranslationProviders, up to the setup dialog:
\* every registered provider is unregistered, the providers with a stored key
\* are registered, and setCurrentProvider is called with the configured
\* provider if it is registered, with the first registered one otherwise
initializeTranslationProviders(sec) ==
  LET registry == RegistryOf(sec)
      chosen == IF MapHas(registry, translationProvider)
                  THEN translationProvider ELSE registry[1].id
  IN  /\ providers' = registry
      /\ IF registry = <<>>
           THEN /\ currentProvider' =
                     IF MapHas(providers, currentProvider)
                       THEN Undefined ELSE currentProvider
                /\ UNCHANGED translationProvider
           ELSE /\ currentProvider' = chosen
                /\ translationProvider' = chosen

\* initializeTranslationProviders: every provider is unregistered, the ones
\* with a stored key are registered, then the configured provider (or the
\* first registered one) is made current; without any key the setup dialog
\* is shown
InitializeProviders ==
  /\ opc = "init"
  /\ initializeTranslationProviders(secrets)
  /\ opc' = IF RegistryOf(secrets) = <<>> THEN "setup" ELSE "base"
  /\ lastError' = "none"
  /\ UNCHANGED <<mpc, mframe, mcalls, mresult, fileVars, secrets, workspace,
                 translationCache, oframe, aframe, tframe, tthist, report>>

\* variant: the pipeline goes on when the second setup has failed
SetupProviderProceeds ==
  /\ opc = "setup"
  /\ \E choice \in {"openai", "groq", "cancel"}, verified \in BOOLEAN :
       IF choice # "cancel" /\ verified
         THEN /\ secrets' = secrets \cup {choice}
              /\ providers' = MapSet(providers, choice, OrchInstance(choice))
              /\ currentProvider' = choice
              /\ translationProvider' = choice
              /\ opc' = "base"
              /\ oframe' = [oframe EXCEPT !.setups = @ + 1]
         ELSE /\ opc' = IF oframe.setups = 0 THEN "setup" ELSE "base"
              /\ oframe' = [oframe EXCEPT !.setups = @ + 1]
              /\ UNCHANGED <<secrets, providers, currentProvider,
                             translationProvider>>
  /\ UNCHANGED <<mpc, mframe, mcalls, mresult, lastError, fileVars, workspace,
                 translationCache, aframe, tframe, tthist, report>>

\* setupTranslationProvider: the dialog, the key prompt and its verification;
\* a verified key is stored, the provider registered and made current. It is
\* shown by initializeTranslationProviders and, when that leaves the registry
\* empty, once more by addKeysWithTranslation (lines 205-210), which returns
\* when the second setup fails
SetupProvider ==
  /\ opc = "setup"
  /\ \E choice \in {"openai", "groq", "cancel"}, verified \in BOOLEAN :
       IF choice # "cancel" /\ verified
         THEN /\ secrets' = secrets \cup {choice}
              /\ providers' = MapSet(providers, choice, OrchInstance(choice))
              /\ currentProvider' = choice
              /\ translationProvider' = choice
              /\ opc' = "base"
              /\ oframe' = [oframe EXCEPT !.setups = @ + 1]
         ELSE /\ opc' = IF oframe.setups = 0 THEN "setup" ELSE "done"
              /\ oframe' = [oframe EXCEPT !.setups = @ + 1]
              /\ UNCHANGED <<secrets, providers, currentProvider,
                             translationProvider>>
  /\ UNCHANGED <<mpc, mframe, mcalls, mresult, lastError, fileVars, workspace,
                 translationCache, aframe, tframe, tthist, report>>

\* variant: no file is recognised as the English one
FindEnUsFileNone(files) == 0

\* translationFiles.find(...) of lines 216-220: the position of the first
\* file whose locale is en_US or en, 0 if there is none
FindEnUsFile(files) ==
  LET base == {i \in 1..Len(files) : IsEnglishLocale(Basename(files[i], extDart))}
  IN  IF base = {} THEN 0 ELSE CHOOSE i \in base : \A j \in base : i <= j

\* lines 228-234: every "key": "value" pair of the file, with a non-empty
\* value, is put into the table, later pairs overwriting earlier ones
RECURSIVE StorePairs(_, _)
StorePairs(table, matches) ==
  With(matches, LAMBDA pairs :
    IF pairs = <<>> THEN table
    ELSE With(Store(table, pairs[1].key, pairs[1].value), LAMBDA stored :
           StorePairs(stored, Tail(pairs))))

\* lines 215-238: the English file is processed first, without translation,
\* the English table is filled from it and it leaves the work list
ProcessBase ==
  /\ opc = "base"
  /\ \E k \in {FindEnUsFile(oframe.translationFiles)} :
       IF k = 0
         THEN /\ oframe' = [oframe EXCEPT !.idx = 1]
              /\ UNCHANGED fileVars
         ELSE \E enUsFile \in {oframe.translationFiles[k]} :
              \E r \in {MergeWithoutTranslate(disk[enUsFile], englishTranslations,
                                              enUsFile, oframe.keys, FALSE)} :
                /\ disk' = [disk EXCEPT ![enUsFile] = r.content]
                /\ englishTranslations' =
                     StorePairs(r.english, KeyRegexMatches(r.content, 1, TRUE))
                /\ lastMerge' = r.call
                /\ oframe' =
                     [oframe EXCEPT
                        !.addedCount = @ + r.call.returned,
                        !.enUsFile = enUsFile,
                        !.idx = 1,
                        !.translationFiles =
                           SelectSeq(@, LAMBDA f : f # enUsFile)]
  /\ opc' = "loop"
  /\ UNCHANGED <<mgrVars, secrets, workspace, translationCache, aframe,
                 tframe, tthist, report>>

\* the for loop of lines 250-280 has run out of files: the report of lines
\* 284-289; when nothing was added and a file had an error, or when
\* getCurrentProviderName throws for want of a current provider, the catch
\* block of lines 293-308 offers 'Switch Provider' and 'Proceed Without
\* Translation' instead
LoopEnd ==
  /\ opc = "loop"
  /\ oframe.idx > Len(oframe.translationFiles)
  /\ IF /\ oframe.addedCount > 0 \/ oframe.errorCount = 0
        /\ MapHas(providers, currentProvider)
       THEN /\ report' = [shown |-> TRUE, addedCount |-> oframe.addedCount,
                          files |-> Len(oframe.translationFiles),
                          errorCount |-> oframe.errorCount]
            /\ opc' = "done"
       ELSE /\ report' = report
            /\ opc' = "choice"
  /\ UNCHANGED <<mgrVars, fileVars, secrets, workspace, translationCache,
                 oframe, aframe, tframe, tthist>>

\* one turn of the loop whose file needs no translation call: the table is
\* not found, no key is new, or the locale is en_US or en;
\* addKeysToTranslationFile returns before its first await
LoopFileDirect ==
  /\ opc = "loop"
  /\ oframe.idx <= Len(oframe.translationFiles)
  /\ MapHas(providers, currentProvider)
  /\ \E file \in {oframe.translationFiles[oframe.idx]} :
       /\ \/ ~MapRegex(disk[file]).ok
          \/ NewKeys(disk[file], oframe.keys) = <<>>
          \/ IsEnglishLocale(getLocaleFromFilename(file))
       /\ \E r \in {MergeWithoutTranslate(disk[file], englishTranslations, file,
                                           oframe.keys, TRUE)} :
            /\ disk' = [disk EXCEPT ![file] = r.content]
            /\ englishTranslations' = r.english
            /\ lastMerge' = r.call
            /\ oframe' = [oframe EXCEPT !.addedCount = @ + r.call.returned,
                                        !.idx = @ + 1]
  /\ UNCHANGED <<mgrVars, secrets, workspace, translationCache, opc, aframe,
                 tframe, tthist, report>>

\* one turn of the loop whose file has new keys to translate: the file is
\* read, the new keys are computed and the first batch starts (lines 332-366)
LoopFileTranslate ==
  /\ opc = "loop"
  /\ oframe.idx <= Len(oframe.translationFiles)
  /\ MapHas(providers, currentProvider)
  /\ \E file \in {oframe.translationFiles[oframe.idx]} :
     \E newKeys \in {NewKeys(disk[file], oframe.keys)} :
       /\ MapRegex(disk[file]).ok
       /\ newKeys # <<>>
       /\ ~IsEnglishLocale(getLocaleFromFilename(file))
       /\ aframe' = [NoAFrame EXCEPT !.path = file, !.content = disk[file],
                                     !.locale = getLocaleFromFilename(file),
                                     !.newKeys = newKeys,
                                     !.i = 0, !.b = 1]
  /\ opc' = "key"
  /\ UNCHANGED <<mgrVars, fileVars, secrets, workspace, translationCache,
                 oframe, tframe, tthist, report>>

\* what tthist keeps for one (text, locale)
NoHist == [n |-> 0, laterAsked |-> FALSE, firstCached |-> FALSE,
           first |-> [kind |-> "none", text |-> <<>>],
           last |-> [kind |-> "none", text |-> <<>>]]

\* tthist after a translateText call for (text, locale) has completed with
\* result; asked tells whether it called manager.translate, cached whether
\* it left a cache entry for (text, locale)
HistAfter(h, text, locale, result, asked, cached) ==
  LET k == <<text, locale>>
      old == IF k \in DOMAIN h THEN h[k] ELSE NoHist
  IN  Store(h, k,
            IF old.n = 0
              THEN [n |-> 1, laterAsked |-> FALSE,
                    firstCached |-> cached, first |-> result, last |-> result]
              ELSE [old EXCEPT !.n = 2,
                               !.laterAsked = @ \/ asked,
                               !.last = result])

\* variant: the cache is never consulted
CachedTranslationNever(cache, text, locale) == <<>>

\* translationCache[cacheKey] of line 551
CachedTranslation(cache, text, locale) == Lookup(cache, CacheKey(text, locale))

\* variant: what translateText returned is kept without validation
KeptValueUnchecked(result, key, locale) ==
  IF result.kind = "value" /\ result.text # <<>>
    THEN result.text
    ELSE EnglishOrKey(englishTranslations, key)

\* lines 374-388: the value addKeysToTranslationFile keeps for a key, given
\* what translateText returned (kind "value") or that it threw
KeptValue(result, key, locale) ==
  IF /\ result.kind = "value"
     /\ result.text # <<>>
     /\ isValidTranslationForLocale(result.text, locale)
    THEN result.text
    ELSE EnglishOrKey(englishTranslations, key)

\* the rest of addKeysToTranslationFile once translateText has settled for
\* the current key: the next key of the batch, or the entries of the batch
\* and the pause before the next batch, or the write of lines 434-450 and the
\* return into the loop of addKeysWithTranslation
AfterKey(result) ==
  LET key == aframe.newKeys[aframe.i + aframe.b]
      translations == Store(aframe.translations, key,
                            KeptValue(result, key, aframe.locale))
      lastOfBatch == \/ aframe.b = batchSize
                     \/ aframe.i + aframe.b = Len(aframe.newKeys)
      batch == SubSeq(aframe.newKeys, aframe.i + 1, aframe.i + aframe.b)
      newEntries ==
        aframe.newEntries \o
        [j \in 1..Len(batch) |->
           Entry(batch[j], IF Lookup(translations, batch[j]) # <<>>
                             THEN Lookup(translations, batch[j])
                             ELSE batch[j])]
  IN  IF ~lastOfBatch
        THEN /\ aframe' = [aframe EXCEPT !.translations = translations,
                                         !.b = @ + 1]
             /\ opc' = "key"
             /\ UNCHANGED <<fileVars, oframe>>
      ELSE IF aframe.i + batchSize < Len(aframe.newKeys)
        THEN /\ aframe' = [aframe EXCEPT !.translations = <<>>,
                                         !.newEntries = newEntries,
                                         !.i = @ + batchSize, !.b = 1]
             /\ opc' = "pause"
             /\ UNCHANGED <<fileVars, oframe>>
      ELSE /\ disk' = [disk EXCEPT ![aframe.path] =
                         UpdatedContent(aframe.content, newEntries)]
           /\ lastMerge' = [NoMerge EXCEPT !.path = aframe.path,
                                           !.before = aframe.content,
                                           !.keys = oframe.keys,
                                           !.useTranslation = TRUE,
                                           !.returned = Len(aframe.newKeys),
                                           !.wrote = TRUE]
           /\ oframe' = [oframe EXCEPT !.addedCount = @ + Len(aframe.newKeys),
                                       !.idx = @ + 1]
           /\ aframe' = NoAFrame
           /\ opc' = "loop"
           /\ UNCHANGED englishTranslations

\* translateText entered for (text, locale) with attempts manager calls made
\* before: a cache hit returns at once (lines 550-554), otherwise the manager
\* is asked (lines 556-561)
TranslateTextEnter(text, locale, attempts) ==
  LET hit == CachedTranslation(translationCache, text, locale)
  IN  IF hit # <<>>
        THEN /\ AfterKey([kind |-> "value", text |-> hit])
             /\ tthist' = HistAfter(tthist, text, locale,
                                    [kind |-> "value", text |-> hit],
                                    attempts > 0, TRUE)
             /\ tframe' = NoTFrame
             /\ UNCHANGED mgrVars
        ELSE /\ MgrTranslateBegin(text)
             /\ tframe' = [text |-> text, locale |-> locale,
                           attempts |-> Min2(attempts + 1, MaxAttempts)]
             /\ opc' = "ttAwait"
             /\ UNCHANGED <<fileVars, oframe, aframe, tthist>>

\* the loop body of line 370 for the current key: translateText is called
TranslateTextStart ==
  /\ opc = "key"
  /\ TranslateTextEnter(aframe.newKeys[aframe.i + aframe.b], aframe.locale, 0)
  /\ UNCHANGED <<secrets, workspace, translationCache, report>>

\* the pause of line 423 between two batches is over
BatchPauseOver ==
  /\ opc = "pause"
  /\ opc' = "key"
  /\ UNCHANGED <<mgrVars, fileVars, secrets, workspace, translationCache,
                 oframe, aframe, tframe, tthist, report>>

\* variant: every text that is not blank counts as valid
ValidAnswerUnchecked(m, locale) ==
  /\ m.kind = "value"
  /\ TrimNonEmpty(m.text)

\* lines 563-570: the settled manager call gave a text that is not blank and
\* passes the validation for the locale
ValidAnswer(m, locale) ==
  /\ m.kind = "value"
  /\ TrimNonEmpty(m.text)
  /\ isValidTranslationForLocale(m.text, locale)

\* what translateText returns or throws once manager.translate has settled
\* with m, status 429 apart (lines 563-588)
TranslateTextResult(m, text, locale) ==
  IF m.kind = "value"
    THEN IF ~TrimNonEmpty(m.text) THEN [kind |-> "thrown", text |-> <<>>]
         ELSE IF ValidAnswer(m, locale) THEN [kind |-> "value", text |-> m.text]
         ELSE [kind |-> "value",
               text |-> EnglishOrKey(englishTranslations, text)]
    ELSE IF m.statusCode = 400 THEN [kind |-> "value", text |-> text]
         ELSE [kind |-> "thrown", text |-> <<>>]

\* manager.translate has settled inside translateText (lines 561-589): an
\* empty result is thrown as an error, a valid one is cached and returned, an
\* invalid one is replaced by the English value or the text; status 400
\* returns the text, status 429 waits, every other error is rethrown
TranslateTextSettle ==
  /\ opc = "ttAwait"
  /\ mpc = "returned"
  /\ LET m == mresult
         text == tframe.text
         locale == tframe.locale
         valid == ValidAnswer(m, locale)
         result == TranslateTextResult(m, text, locale)
     IN  IF m.kind = "error" /\ m.statusCode = 429
           THEN /\ opc' = "backoff"
                /\ UNCHANGED <<fileVars, translationCache, oframe, aframe,
                               tframe, tthist>>
           ELSE /\ translationCache' =
                     IF valid
                       THEN Store(translationCache, CacheKey(text, locale), m.text)
                       ELSE translationCache
                /\ AfterKey(result)
                /\ tthist' = HistAfter(tthist, text, locale, result, TRUE, valid)
                /\ tframe' = NoTFrame
  /\ mpc' = "idle"
  /\ mframe' = NoFrame
  /\ mcalls' = <<>>
  /\ mresult' = NoResult
  /\ lastError' = "none"
  /\ UNCHANGED <<providers, currentProvider, translationProvider, secrets,
                 workspace, report>>

\* the 5 second wait of line 585 is over: translateText calls itself
TranslateTextRetry ==
  /\ opc = "backoff"
  /\ TranslateTextEnter(tframe.text, tframe.locale, tframe.attempts)
  /\ UNCHANGED <<secrets, workspace, translationCache, report>>

OrchCurrentSettles ==
  /\ opc = "ttAwait"
  /\ MgrCurrentSettles
  /\ UNCHANGED <<fileVars, orchVars>>

OrchFallbackSettles ==
  /\ opc = "ttAwait"
  /\ MgrFallbackSettles
  /\ UNCHANGED <<fileVars, orchVars>>

----------------------------------------------------------------------------
(***************************************************************************)
(* The merge applied to one locale file, over and over.                    *)
(***************************************************************************)
NoManager ==
  /\ providers = <<>>
  /\ currentProvider = Undefined
  /\ translationProvider = Undefined
  /\ mpc = "idle"
  /\ mframe = NoFrame
  /\ mcalls = <<>>
  /\ mresult = NoResult
  /\ lastError = "none"

CodecPaths == {Path("lib/lang", locEn), Path("lib/lang", locFr)}

InitCodec ==
  /\ NoManager
  /\ \E path \in CodecPaths, tpl \in Templates : disk = [f \in {path} |-> tpl]
  /\ englishTranslations = <<>>
  /\ lastMerge = NoMerge
  /\ NoOrchestrator
  /\ lastCall = NoCall
  /\ NoKeySetup
  /\ NoOverlap

CodecMerge ==
  /\ \E path \in DOMAIN disk, keys \in KeyLists :
       /\ Len(disk[path]) <= MaxContent
       /\ \E r \in {MergeWithoutTranslate(disk[path], englishTranslations,
                                            path, keys, FALSE)} :
            /\ disk' = [disk EXCEPT ![path] = r.content]
            /\ englishTranslations' = r.english
            /\ lastMerge' = r.call
  /\ UNCHANGED <<mgrVars, orchVars>>

NextCodec == CodecMerge /\ UNCHANGED auxVars

SpecCodec == InitCodec /\ [][NextCodec]_vars

----------------------------------------------------------------------------
(***************************************************************************)
(* The manager driven through its public operations, one at a time.        *)
(***************************************************************************)
NoFiles ==
  /\ disk = <<>>
  /\ englishTranslations = <<>>
  /\ lastMerge = NoMerge

InitPM ==
  /\ NoManager
  /\ NoFiles
  /\ NoOrchestrator
  /\ lastCall = NoCall
  /\ NoKeySetup
  /\ NoOverlap

PMRegister ==
  /\ mpc = "idle"
  /\ \E id \in ProviderIds, p \in ProviderInstances : registerProvider(id, p)
  /\ lastError' = "none"
  /\ UNCHANGED <<translationProvider, mpc, mframe, mcalls, mresult>>
  /\ UNCHANGED <<fileVars, orchVars>>

PMUnregister ==
  /\ mpc = "idle"
  /\ \E id \in ProviderIds : unregisterProvider(id)
  /\ lastError' = "none"
  /\ UNCHANGED <<translationProvider, mpc, mframe, mcalls, mresult>>
  /\ UNCHANGED <<fileVars, orchVars>>

PMSetCurrent ==
  /\ mpc = "idle"
  /\ \E id \in ProviderIds : setCurrentProvider(id)
  /\ UNCHANGED <<providers, mpc, mframe, mcalls, mresult>>
  /\ UNCHANGED <<fileVars, orchVars>>

PMTranslate ==
  /\ mpc = "idle"
  /\ MgrTranslateBegin(txtLatin)
  /\ UNCHANGED <<fileVars, orchVars>>

\* a command invocation starts and runs initializeTranslationProviders on the
\* manager as it was left
PMInitialize ==
  /\ mpc = "idle"
  /\ initializeTranslationProviders(secrets)
  /\ lastError' = "none"
  /\ UNCHANGED <<mpc, mframe, mcalls, mresult>>
  /\ UNCHANGED <<fileVars, orchVars>>

\* between invocations the user stores or deletes API keys
PMSecretsChange ==
  /\ mpc = "idle"
  /\ \E sec \in SUBSET {"openai", "groq"} :
       /\ sec # secrets
       /\ secrets' = sec
  /\ UNCHANGED <<mgrVars, fileVars, workspace, translationCache, opc, oframe,
                 aframe, tframe, tthist, report>>

\* the caller takes the settled promise
PMTranslateDone ==
  /\ mpc = "returned"
  /\ mpc' = "idle"
  /\ mframe' = NoFrame
  /\ mcalls' = <<>>
  /\ mresult' = NoResult
  /\ lastError' = "none"
  /\ UNCHANGED <<providers, currentProvider, translationProvider>>
  /\ UNCHANGED <<fileVars, orchVars>>

PMCurrentSettles == MgrCurrentSettles /\ UNCHANGED <<fileVars, orchVars>>

PMFallbackSettles == MgrFallbackSettles /\ UNCHANGED <<fileVars, orchVars>>

NextPM ==
  \/ PMRegister /\ UNCHANGED auxVars
  \/ PMUnregister /\ UNCHANGED auxVars
  \/ PMSetCurrent /\ UNCHANGED auxVars
  \/ PMTranslate /\ UNCHANGED auxVars
  \/ PMCurrentSettles /\ UNCHANGED auxVars
  \/ PMFallbackSettles /\ UNCHANGED auxVars
  \/ PMTranslateDone /\ UNCHANGED auxVars
  \/ PMInitialize /\ UNCHANGED auxVars
  \/ PMSecretsChange /\ UNCHANGED auxVars

SpecPM == InitPM /\ [][NextPM]_vars

----------------------------------------------------------------------------
(***************************************************************************)
(* addKeysWithTranslation, invoked once on a workspace.                    *)
(***************************************************************************)
dirLang == "lib/lang"

dirLocale == "lib/locale"

\* the workspaces the command runs on: the locale files in the order the
\* command handler hands them over, with their contents
Workspaces ==
  { [files |-> <<Path(dirLang, locEnUS), Path(dirLang, locAr)>>,
     contents |-> <<tplOne, tplBlank>>],
    [files |-> <<Path(dirLang, locArSA), Path(dirLang, locEnUS)>>,
     contents |-> <<tplBlank, tplBlank>>],
    [files |-> <<Path(dirLocale, locAr), Path(dirLang, locAr)>>,
     contents |-> <<tplBlank, tplBlank>>],
    [files |-> <<Path(dirLang, locEnUS), Path(dirLang, locFr),
                 Path(dirLang, locEn)>>,
     contents |-> <<tplOne, tplNoMap, tplBlank>>],
    [files |-> <<Path(dirLocale, locArSA)>>,
     contents |-> <<tplOne>>] }

\* credentials in the secret store when the command runs
SecretSetups == {{}, {"openai", "groq"}}

Init ==
  /\ providers = <<>>
  /\ currentProvider = Undefined
  /\ translationProvider \in {"openai", "groq"}
  /\ mpc = "idle"
  /\ mframe = NoFrame
  /\ mcalls = <<>>
  /\ mresult = NoResult
  /\ lastError = "none"
  /\ \E w \in Workspaces :
       /\ workspace = w.files
       /\ disk = [f \in {w.files[i] : i \in 1..Len(w.files)} |->
                    w.contents[CHOOSE i \in 1..Len(w.files) : w.files[i] = f]]
  /\ englishTranslations = <<>>
  /\ lastMerge = NoMerge
  /\ secrets \in SecretSetups
  /\ translationCache = <<>>
  /\ opc = "idle"
  /\ oframe = NoOFrame
  /\ aframe = NoAFrame
  /\ tframe = NoTFrame
  /\ tthist = <<>>
  /\ report = NoReport
  /\ lastCall = NoCall
  /\ NoKeySetup
  /\ NoOverlap

Next ==
  \/ Invoke /\ UNCHANGED auxVars
  \/ InitializeProviders /\ UNCHANGED auxVars
  \/ SetupProvider /\ UNCHANGED auxVars
  \/ ProcessBase /\ UNCHANGED auxVars
  \/ LoopFileDirect /\ UNCHANGED auxVars
  \/ LoopFileTranslate /\ UNCHANGED auxVars
  \/ TranslateTextStart /\ UNCHANGED auxVars
  \/ OrchCurrentSettles /\ UNCHANGED auxVars
  \/ OrchFallbackSettles /\ UNCHANGED auxVars
  \/ TranslateTextSettle /\ UNCHANGED auxVars
  \/ TranslateTextRetry /\ UNCHANGED auxVars
  \/ BatchPauseOver /\ UNCHANGED auxVars
  \/ LoopEnd /\ UNCHANGED auxVars

Spec == Init /\ [][Next]_vars

\* every timer fires and every pending request settles
FairSpec == Spec /\ WF_vars(Next)

----------------------------------------------------------------------------
(***************************************************************************)
(* The stateless functions, called one at a time: the key extraction of    *)
(* scanProjectForKeys and of the extract command, the file name filter of  *)
(* findTranslationFiles, and the response handling of the two providers.   *)
(***************************************************************************)
\* ".tr"
litDotTr == <<46, 116, 114>>

\* trRegex /["']([^"']+)["']\.tr/ tried at position i; end is the position
\* of the last character matched
trRegex(s, i) ==
  IF ~(i >= 1 /\ i <= Len(s) /\ IsQuote(s[i])) THEN NoKeyMatch
  ELSE
  With(Skip(NotQuote, s, i + 1), LAMBDA j :
    IF /\ j > i + 1
       /\ j <= Len(s)
       /\ StartsAt(s, j + 1, litDotTr)
      THEN [ok |-> TRUE, key |-> SubSeq(s, i + 1, j - 1), value |-> <<>>,
            end |-> j + Len(litDotTr)]
      ELSE NoKeyMatch)

\* variant: every match is pushed, whether the key is in the list or not
RECURSIVE scanProjectForKeysAll(_, _, _)
scanProjectForKeysAll(content, lastIndex, allKeys) ==
  With(content, LAMBDA s :
  With({i \in lastIndex..Len(s) : trRegex(s, i).ok}, LAMBDA occ :
    IF occ = {} THEN allKeys
    ELSE With(trRegex(s, Least(occ)), LAMBDA match :
           scanProjectForKeysAll(s, match.end + 1, Append(allKeys, match.key)))))

\* the while loop of scanProjectForKeys (and of the extract command) on one
\* text: trRegex.exec from lastIndex on, allKeys being the keys found so far
RECURSIVE scanProjectForKeys(_, _, _)
scanProjectForKeys(content, lastIndex, allKeys) ==
  With(content, LAMBDA s :
  With({i \in lastIndex..Len(s) : trRegex(s, i).ok}, LAMBDA occ :
    IF occ = {} THEN allKeys
    ELSE With(trRegex(s, Least(occ)), LAMBDA match :
           scanProjectForKeys(s, match.end + 1,
             IF Includes(allKeys, match.key) THEN allKeys
             ELSE Append(allKeys, match.key)))))

\* the pieces the scanned texts are made of:
\* "a".tr   'b'.tr   +   "   .tr   a'
Pieces ==
  { <<34, 97, 34, 46, 116, 114>>, <<39, 98, 39, 46, 116, 114>>,
    <<32, 43, 32>>, <<34>>, litDotTr, <<97, 39>> }

\* the concatenation of a sequence of strings
RECURSIVE Concat(_)
Concat(list) == IF list = <<>> THEN <<>> ELSE Head(list) \o Concat(Tail(list))

\* the texts handed to the key extraction
ScanTexts ==
  UNION {{Concat(ps) : ps \in [1..n -> Pieces]} : n \in 0..MaxPieces}

ScanKeys ==
  /\ lastCall.fn = "scanProjectForKeys"
  /\ ~lastCall.returned
  /\ lastCall' = [lastCall EXCEPT
                    !.keys = scanProjectForKeys(lastCall.text, 1, <<>>),
                    !.returned = TRUE]
  /\ UNCHANGED <<mgrVars, fileVars, orchVars, secretStorage, overlapping>>

\* [a-z]
IsLower(c) == c \in 97..122

\* [A-Z]
IsUpper(c) == c \in 65..90

\* localePattern.test(fileName) for /([a-z]{2}_[A-Z]{2}|[a-z]{2})\.dart$/
localePattern(fileName) ==
  \E n \in {Len(fileName) - Len(extDart)} :
    /\ n >= 2
    /\ SubSeq(fileName, n + 1, Len(fileName)) = extDart
    /\ \/ /\ n >= 5
          /\ IsLower(fileName[n - 4]) /\ IsLower(fileName[n - 3])
          /\ fileName[n - 2] = 95
          /\ IsUpper(fileName[n - 1]) /\ IsUpper(fileName[n])
       \/ IsLower(fileName[n - 1]) /\ IsLower(fileName[n])

\* findTranslationFiles: the filter applied to the paths the glob patterns
\* found; path.basename(file) is the base of the path
findTranslationFiles(files) ==
  SelectSeq(files, LAMBDA file : localePattern(file.base))

\* names of .dart files found under lib/lang: en, pt_BR, token, main_en,
\* app_pt_BR, en_us, EN, l10n, en_USA
CandidateNames ==
  { locEn, <<112, 116, 95, 66, 82>>, <<116, 111, 107, 101, 110>>,
    <<109, 97, 105, 110, 95, 101, 110>>,
    <<97, 112, 112, 95, 112, 116, 95, 66, 82>>, <<101, 110, 95, 117, 115>>,
    <<69, 78>>, <<108, 49, 48, 110>>, <<101, 110, 95, 85, 83, 65>> }

\* the lists of paths the glob patterns can find
CandidateLists ==
  UNION {[1..n -> {Path(dirLang, name) : name \in CandidateNames}] :
           n \in 0..MaxFiles}

FindFiles ==
  /\ lastCall.fn = "findTranslationFiles"
  /\ ~lastCall.returned
  /\ lastCall' = [lastCall EXCEPT
                    !.kept = findTranslationFiles(lastCall.files),
                    !.returned = TRUE]
  /\ UNCHANGED <<mgrVars, fileVars, orchVars, secretStorage, overlapping>>

\* String.prototype.trim
Trim(s) ==
  With({i \in 1..Len(s) : ~IsSpace(s[i])}, LAMBDA ink :
    IF ink = {} THEN <<>>
    ELSE SubSeq(s, Least(ink), CHOOSE i \in ink : \A j \in ink : j <= i))

\* [.,;:]
IsPunctuation(c) == c \in {46, 44, 59, 58}

\* .replace(/^["']|["']$/g, "").split("\n")[0]: a quote at the start and a
\* quote at the end are removed, then the text up to the first line feed is
\* taken
FirstLineUnquoted(text) ==
  With(IF text # <<>> /\ IsQuote(text[1]) THEN Tail(text) ELSE text, LAMBDA t :
  With(IF t # <<>> /\ IsQuote(t[Len(t)]) THEN SubSeq(t, 1, Len(t) - 1) ELSE t,
       LAMBDA u : SubSeq(u, 1, Skip(LAMBDA c : c # 10, u, 1) - 1)))

\* .split(/[.,;:]/).map(trim): the trimmed parts of the line, by the position
\* of the separator in front of each part (0 for the first part)
TrimmedParts(line) ==
  [b \in {0} \cup {i \in 1..Len(line) : IsPunctuation(line[i])} |->
     Trim(SubSeq(line, b + 1, Skip(LAMBDA c : ~IsPunctuation(c), line, b + 1) - 1))]

\* a promise of translate that rejected; statusCode is NoStatus when the
\* error has no statusCode property
Rejected(statusCode) ==
  [ok |-> FALSE, defined |-> FALSE, text |-> txtEmpty, statusCode |-> statusCode]

\* a promise of translate that resolved with a string
Resolved(text) ==
  [ok |-> TRUE, defined |-> TRUE, text |-> text, statusCode |-> NoStatus]

\* a promise of translate that resolved with undefined
ResolvedUndefined ==
  [ok |-> TRUE, defined |-> FALSE, text |-> txtEmpty, statusCode |-> NoStatus]

\* the end handler of GroqTranslationProvider.translate: the promise it
\* settles for a response with this status and this body
GroqTranslate(statusCode, body) ==
  IF ~body.json THEN Rejected(NoStatus)
  ELSE IF statusCode >= 400 \/ body.error THEN Rejected(statusCode)
  ELSE
  With(IF body.hasContent THEN Trim(body.content) ELSE <<>>, LAMBDA translatedText :
    IF translatedText = <<>> THEN Rejected(NoStatus)
    ELSE With(TrimmedParts(FirstLineUnquoted(translatedText)), LAMBDA parts :
         With({b \in DOMAIN parts : Len(parts[b]) > 0}, LAMBDA nonEmpty :
           IF nonEmpty = {} THEN ResolvedUndefined
           ELSE Resolved(parts[Least(nonEmpty)]))))

\* the end handler of OpenAITranslationProvider.translate
OpenAITranslate(statusCode, body) ==
  IF statusCode >= 400 THEN Rejected(statusCode)
  ELSE IF ~body.json THEN Rejected(NoStatus)
  ELSE IF body.error THEN Rejected(NoStatus)
  ELSE
  With(IF body.hasContent THEN Trim(body.content) ELSE <<>>, LAMBDA trimmed :
  With(IF trimmed = <<>> THEN <<>>
       ELSE TrimmedParts(FirstLineUnquoted(trimmed))[0], LAMBDA translatedText :
    IF translatedText = <<>> THEN Rejected(NoStatus)
    ELSE Resolved(translatedText)))

\* characters of the content a backend answers with: " a . space, line feed
ContentChars == {34, 97, 46, 32, 10}

\* response bodies: not JSON; JSON with an error field; JSON without
\* choices[0].message.content; JSON with a content
ResponseBodies ==
  { [json |-> FALSE, error |-> FALSE, hasContent |-> FALSE, content |-> <<>>],
    [json |-> TRUE, error |-> TRUE, hasContent |-> FALSE, content |-> <<>>],
    [json |-> TRUE, error |-> FALSE, hasContent |-> FALSE, content |-> <<>>] }
  \cup
  { [json |-> TRUE, error |-> FALSE, hasContent |-> TRUE, content |-> c] :
      c \in UNION {[1..n -> ContentChars] : n \in 0..MaxText} }

\* res.statusCode of the response
ResponseStatus == {200, 401, 429, 500}

ProviderResponds ==
  /\ lastCall.fn = "translate"
  /\ ~lastCall.returned
  /\ lastCall' = [lastCall EXCEPT
                    !.result = IF lastCall.provider = "groq"
                                 THEN GroqTranslate(lastCall.statusCode, lastCall.body)
                                 ELSE OpenAITranslate(lastCall.statusCode, lastCall.body),
                    !.returned = TRUE]
  /\ UNCHANGED <<mgrVars, fileVars, orchVars, secretStorage, overlapping>>

\* default of the parameter maxRetries of translateWithOpenAI
DefaultMaxRetries == 3

\* an error without a code property
NoCode == "none"

\* an Error thrown by an attempt: its statusCode and code properties, and
\* whether its message includes "rate_limit"
AttemptError(statusCode, code, rateLimit) ==
  [statusCode |-> statusCode, code |-> code, rateLimit |-> rateLimit]

NoAttemptError == AttemptError(NoStatus, NoCode, FALSE)

\* the promise of an attempt that rejected with this error
AttemptRejected(error) == [ok |-> FALSE, text |-> txtEmpty, error |-> error]

\* the promise of an attempt that resolved with this text
AttemptResolved(text) == [ok |-> TRUE, text |-> text, error |-> NoAttemptError]

NoAttempt == [ok |-> FALSE, text |-> txtEmpty, error |-> NoAttemptError]

\* what the request of translateWithOpenAIAttempt ends with: a response with
\* this status and body ("end"), an error of the socket with this code
\* ("error"), or the timeout of the request ("timeout"); the promise it settles
translateWithOpenAIAttempt(event) ==
  IF event.kind = "error" THEN AttemptRejected(AttemptError(NoStatus, event.code, FALSE))
  ELSE IF event.kind = "timeout" THEN AttemptRejected(NoAttemptError)
  ELSE IF event.statusCode >= 400
    THEN AttemptRejected(AttemptError(event.statusCode, NoCode, FALSE))
  ELSE IF ~event.body.json THEN AttemptRejected(NoAttemptError)
  ELSE IF event.body.error
    THEN AttemptRejected(AttemptError(NoStatus, event.body.code, event.body.rateLimit))
  ELSE With(Trim(event.body.content), LAMBDA translation :
         IF translation = <<>> THEN AttemptRejected(NoAttemptError)
         ELSE AttemptResolved(translation))

\* isRetryableError of openai.ts, where every failure is retried
isRetryableErrorAlways(error) == TRUE

isRetryableError(error) ==
  \/ error.code = "ECONNRESET"
  \/ error.code = "ETIMEDOUT"
  \/ error.rateLimit
  \/ (error.statusCode # NoStatus /\ error.statusCode >= 500)

\* bodies of a response of the OpenAI API: not JSON; an error object, by its
\* code and by whether its message includes "rate_limit"; a content
AttemptBodies ==
  { [json |-> FALSE, error |-> FALSE, code |-> NoCode, rateLimit |-> FALSE,
     content |-> <<>>],
    [json |-> TRUE, error |-> TRUE, code |-> "rate_limit_exceeded",
     rateLimit |-> FALSE, content |-> <<>>],
    [json |-> TRUE, error |-> TRUE, code |-> "rate_limit_exceeded",
     rateLimit |-> TRUE, content |-> <<>>],
    [json |-> TRUE, error |-> TRUE, code |-> "invalid_api_key",
     rateLimit |-> FALSE, content |-> <<>>],
    [json |-> TRUE, error |-> FALSE, code |-> NoCode, rateLimit |-> FALSE,
     content |-> <<32>>],
    [json |-> TRUE, error |-> FALSE, code |-> NoCode, rateLimit |-> FALSE,
     content |-> <<32, 97>>] }

\* no request has ended yet
NoEvent ==
  [kind |-> "none", statusCode |-> NoStatus,
   body |-> [json |-> FALSE, error |-> FALSE, code |-> NoCode,
             rateLimit |-> FALSE, content |-> <<>>],
   code |-> NoCode]

\* what a request ends with
AttemptEvents ==
  {[kind |-> "end", statusCode |-> statusCode, body |-> body, code |-> NoCode] :
     statusCode \in {200, 401, 429, 500, 503}, body \in AttemptBodies}
  \cup
  {[kind |-> "error", statusCode |-> NoStatus,
    body |-> [json |-> FALSE, error |-> FALSE, code |-> NoCode,
              rateLimit |-> FALSE, content |-> <<>>],
    code |-> code] : code \in {"ECONNRESET", "ETIMEDOUT", "ENOTFOUND"}}
  \cup
  {[kind |-> "timeout", statusCode |-> NoStatus,
    body |-> [json |-> FALSE, error |-> FALSE, code |-> NoCode,
              rateLimit |-> FALSE, content |-> <<>>],
    code |-> NoCode]}

\* translateWithOpenAI is entered: the loop test of the first attempt, and
\* the return after the loop when no attempt is allowed
OpenAIStart ==
  /\ lastCall.fn = "translateWithOpenAI"
  /\ lastCall.pc = "start"
  /\ lastCall' = IF lastCall.attempt <= lastCall.maxRetries
                   THEN [lastCall EXCEPT !.pc = "attempt"]
                   ELSE [lastCall EXCEPT !.pc = "resolved",
                                         !.result = AttemptResolved(lastCall.text),
                                         !.returned = TRUE]
  /\ UNCHANGED <<mgrVars, fileVars, orchVars, secretStorage, overlapping>>

\* the awaited attempt settles: its text is returned, its error is thrown, or
\* the delay before the next attempt starts
OpenAIAttemptSettles ==
  /\ lastCall.fn = "translateWithOpenAI"
  /\ lastCall.pc = "attempt"
  /\ \E event \in AttemptEvents :
       \E settled \in {translateWithOpenAIAttempt(event)} :
         lastCall' =
           IF settled.ok
             THEN [lastCall EXCEPT !.pc = "resolved", !.event = event,
                                   !.result = settled, !.returned = TRUE]
           ELSE IF lastCall.attempt = lastCall.maxRetries
                   \/ ~isRetryableError(settled.error)
             THEN [lastCall EXCEPT !.pc = "rejected", !.event = event,
                                   !.result = settled, !.returned = TRUE]
           ELSE [lastCall EXCEPT !.pc = "delay", !.event = event,
                                 !.result = settled]
  /\ UNCHANGED <<mgrVars, fileVars, orchVars, secretStorage, overlapping>>

\* the delay is over: attempt++ and the loop test
OpenAIDelayOver ==
  /\ lastCall.fn = "translateWithOpenAI"
  /\ lastCall.pc = "delay"
  /\ lastCall' =
       IF lastCall.attempt + 1 <= lastCall.maxRetries
         THEN [lastCall EXCEPT !.pc = "attempt", !.attempt = lastCall.attempt + 1]
         ELSE [lastCall EXCEPT !.pc = "resolved", !.attempt = lastCall.attempt + 1,
                               !.result = AttemptResolved(lastCall.text),
                               !.returned = TRUE]
  /\ UNCHANGED <<mgrVars, fileVars, orchVars, secretStorage, overlapping>>

\* an API key, by what the code and the backend test of it: whether it starts
\* with "sk-", whether it has 40 characters or more, whether the backend
\* accepts it
ApiKey(name, prefix, long, accepted) ==
  [name |-> name, prefix |-> prefix, long |-> long, accepted |-> accepted]

\* the key stored by an earlier, successful setup
keyOld == ApiKey("old", TRUE, TRUE, TRUE)

\* the keys a user enters
EnteredKeys ==
  {ApiKey("new", prefix, long, accepted) : prefix, long, accepted \in BOOLEAN}

\* context.secrets.store and context.secrets.delete
SecretStore(storage, id, apiKey) == [storage EXCEPT ![id] = apiKey]

SecretDelete(storage, id) == [storage EXCEPT ![id] = NoKey]

\* how the verification request can end: a key the backend does not accept
\* always fails, an accepted key fails when the request itself fails
Verifications(apiKey) == IF apiKey.accepted THEN BOOLEAN ELSE {FALSE}

\* setOpenAIApiKey up to its first await: the format checks throw, otherwise
\* the key is stored and the verification request is sent
SetOpenAIKeyStart ==
  /\ lastCall.fn = "setOpenAIApiKey"
  /\ lastCall.pc = "start"
  /\ IF ~lastCall.apiKey.prefix \/ ~lastCall.apiKey.long
       THEN /\ lastCall' = [lastCall EXCEPT !.pc = "rejected", !.returned = TRUE]
            /\ UNCHANGED secretStorage
       ELSE /\ secretStorage' = SecretStore(secretStorage, "openai", lastCall.apiKey)
            /\ lastCall' = [lastCall EXCEPT !.pc = "verify"]
  /\ UNCHANGED <<mgrVars, fileVars, orchVars, overlapping>>

\* translateWithOpenAI("test", "English", apiKey) settles: the catch block
\* deletes the secret and throws
SetOpenAIKeyVerified ==
  /\ lastCall.fn = "setOpenAIApiKey"
  /\ lastCall.pc = "verify"
  /\ \E verified \in Verifications(lastCall.apiKey) :
       IF verified
         THEN /\ lastCall' = [lastCall EXCEPT !.pc = "resolved", !.returned = TRUE]
              /\ UNCHANGED secretStorage
         ELSE /\ secretStorage' = SecretDelete(secretStorage, "openai")
              /\ lastCall' = [lastCall EXCEPT !.pc = "rejected", !.returned = TRUE]
  /\ UNCHANGED <<mgrVars, fileVars, orchVars, overlapping>>

\* setGroqApiKey up to its first await: the test provider is built and its
\* translate("test", "English") is awaited
SetGroqKeyStart ==
  /\ lastCall.fn = "setGroqApiKey"
  /\ lastCall.pc = "start"
  /\ lastCall' = [lastCall EXCEPT !.pc = "verify"]
  /\ UNCHANGED <<mgrVars, fileVars, orchVars, secretStorage, overlapping>>

\* the test request settles: the key is stored only if it succeeded
SetGroqKeyVerified ==
  /\ lastCall.fn = "setGroqApiKey"
  /\ lastCall.pc = "verify"
  /\ \E verified \in Verifications(lastCall.apiKey) :
       IF verified
         THEN /\ secretStorage' = SecretStore(secretStorage, "groq", lastCall.apiKey)
              /\ lastCall' = [lastCall EXCEPT !.pc = "resolved", !.returned = TRUE]
         ELSE /\ lastCall' = [lastCall EXCEPT !.pc = "rejected", !.returned = TRUE]
              /\ UNCHANGED secretStorage
  /\ UNCHANGED <<mgrVars, fileVars, orchVars, overlapping>>

\* the calls of the key setters: the key entered and the secret storage
\* before the call
KeyCalls ==
  {[fn |-> fn, apiKey |-> apiKey, before |-> before, pc |-> "start",
    returned |-> FALSE] :
     fn \in {"setOpenAIApiKey", "setGroqApiKey"}, apiKey \in EnteredKeys,
     before \in [{"openai", "groq"} -> {NoKey, keyOld}]}

\* the calls made: the function and its arguments
Calls ==
  {[fn |-> "scanProjectForKeys", text |-> text, keys |-> <<>>,
    returned |-> FALSE] : text \in ScanTexts}
  \cup
  {[fn |-> "findTranslationFiles", files |-> files, kept |-> <<>>,
    returned |-> FALSE] : files \in CandidateLists}
  \cup
  {[fn |-> "translate", provider |-> id, statusCode |-> statusCode,
    body |-> body, result |-> NoResult, returned |-> FALSE] :
     id \in {"openai", "groq"}, statusCode \in ResponseStatus,
     body \in ResponseBodies}
  \cup
  {[fn |-> "translateWithOpenAI", text |-> txtLatin, maxRetries |-> n,
    attempt |-> 1, pc |-> "start", event |-> NoEvent,
    result |-> NoAttempt, returned |-> FALSE] : n \in 0..DefaultMaxRetries}

InitUnits ==
  /\ NoManager
  /\ NoFiles
  /\ NoOrchestrator
  /\ NoOverlap
  /\ \/ lastCall \in Calls /\ NoKeySetup
     \/ lastCall \in KeyCalls /\ secretStorage = lastCall.before

NextUnits ==
  \/ ScanKeys
  \/ FindFiles
  \/ ProviderResponds
  \/ OpenAIStart
  \/ OpenAIAttemptSettles
  \/ OpenAIDelayOver
  \/ SetOpenAIKeyStart
  \/ SetOpenAIKeyVerified
  \/ SetGroqKeyStart
  \/ SetGroqKeyVerified

SpecUnits == InitUnits /\ [][NextUnits]_vars

----------------------------------------------------------------------------
(***************************************************************************)
(* Two command invocations that overlap: each runs addKeysToTranslationFile *)
(* on the same locale file, and each is suspended in translateText between  *)
(* reading the file and writing it. The command handlers take no lock and   *)
(* keep no flag of a running invocation (commands/index.ts lines 13-108).   *)
(***************************************************************************)
\* the locale file both invocations work on
overlapFile == Path(dirLang, locArSA)

Invocations == {1, 2}

\* the frame of addKeysToTranslationFile before it has read the file
OverlapFrame(keys) ==
  [pc |-> "start", keys |-> keys, content |-> <<>>, newKeys |-> <<>>,
   i |-> 0, newEntries |-> <<>>]

\* the key lists of the two invocations: one batch at most
OverlapKeyLists == {keys \in OrchKeyLists : Len(keys) <= batchSize}

\* what translateText returns for a key: a translation, or a fallback value
OverlapValues(key) == {txtArabic, key}

\* lines 331-360: the file is read, the map is located and the new keys are
\* worked out
OverlapRead ==
  \E inv \in Invocations :
    /\ overlapping[inv].pc = "start"
    /\ \E content \in {disk[overlapFile]} :
       \E newKeys \in {NewKeys(content, overlapping[inv].keys)} :
         overlapping' =
           [overlapping EXCEPT ![inv] =
              IF ~MapRegex(content).ok \/ newKeys = <<>>
                THEN [@ EXCEPT !.pc = "done"]
                ELSE [@ EXCEPT !.pc = "ttAwait", !.content = content,
                               !.newKeys = newKeys, !.i = 1]]
    /\ UNCHANGED <<mgrVars, fileVars, orchVars, lastCall, secretStorage>>

\* lines 370-420: translateText settles for the current key and the entry is
\* built; the next key is translated
OverlapKeyTranslated ==
  \E inv \in Invocations :
    /\ overlapping[inv].pc = "ttAwait"
    /\ overlapping[inv].i < Len(overlapping[inv].newKeys)
    /\ \E key \in {overlapping[inv].newKeys[overlapping[inv].i]} :
       \E value \in OverlapValues(key) :
         overlapping' =
           [overlapping EXCEPT ![inv] =
              [@ EXCEPT !.i = @ + 1,
                        !.newEntries = Append(@, Entry(key, value))]]
    /\ UNCHANGED <<mgrVars, fileVars, orchVars, lastCall, secretStorage>>

\* translateText settles for the last key: the content read at the start is
\* enlarged by the new entries and written (lines 434-450)
OverlapWrite ==
  \E inv \in Invocations :
    /\ overlapping[inv].pc = "ttAwait"
    /\ overlapping[inv].i = Len(overlapping[inv].newKeys)
    /\ \E key \in {overlapping[inv].newKeys[overlapping[inv].i]} :
       \E value \in OverlapValues(key) :
       \E newEntries \in {Append(overlapping[inv].newEntries, Entry(key, value))} :
         /\ disk' = [disk EXCEPT ![overlapFile] =
                       UpdatedContent(overlapping[inv].content, newEntries)]
         /\ overlapping' =
              [overlapping EXCEPT ![inv] =
                 [@ EXCEPT !.pc = "done", !.newEntries = newEntries]]
    /\ UNCHANGED <<mgrVars, englishTranslations, lastMerge, orchVars, lastCall,
                   secretStorage>>

InitOverlap ==
  /\ NoManager
  /\ \E tpl \in Templates : disk = [f \in {overlapFile} |-> tpl]
  /\ englishTranslations = <<>>
  /\ lastMerge = NoMerge
  /\ NoOrchestrator
  /\ lastCall = NoCall
  /\ NoKeySetup
  /\ \E first \in OverlapKeyLists, second \in OverlapKeyLists :
       overlapping = <<OverlapFrame(first), OverlapFrame(second)>>

NextOverlap ==
  \/ OverlapRead
  \/ OverlapKeyTranslated
  \/ OverlapWrite

SpecOverlap == InitOverlap /\ [][NextOverlap]_vars

----------------------------------------------------------------------------
(***************************************************************************)
(* Two command invocations that overlap on the provider manager: the first  *)
(* runs initializeTranslationProviders, the second calls setCurrentProvider *)
(* (from switchTranslationProvider, or at the end of its own                *)
(* initializeTranslationProviders). Each step runs from one await to the    *)
(* next.                                                                    *)
(***************************************************************************)
\* the frame of an invocation: where it is, and the identifier it holds
\* across the await of isAvailable
RaceFrame(pc, id) == [pc |-> pc, id |-> id]

\* lines 28-37: every registered provider is unregistered, then the OpenAI key
\* is awaited
RaceUnregisterAll ==
  /\ overlapping[1].pc = "start"
  /\ providers' = <<>>
  /\ currentProvider' =
       IF MapHas(providers, currentProvider) THEN Undefined ELSE currentProvider
  /\ overlapping' = [overlapping EXCEPT ![1] = RaceFrame("awaitOpenAIKey", Undefined)]
  /\ UNCHANGED <<translationProvider, mpc, mframe, mcalls, mresult, lastError,
                 fileVars, orchVars, lastCall, secretStorage>>

\* lines 37-46: the OpenAI key has arrived, the provider is registered when
\* there is a key, then the Groq key is awaited
RaceOpenAIKey ==
  /\ overlapping[1].pc = "awaitOpenAIKey"
  /\ IF "openai" \in secrets
       THEN registerProvider("openai", OrchInstance("openai"))
       ELSE UNCHANGED <<providers, currentProvider>>
  /\ overlapping' = [overlapping EXCEPT ![1] = RaceFrame("awaitGroqKey", Undefined)]
  /\ UNCHANGED <<translationProvider, mpc, mframe, mcalls, mresult, lastError,
                 fileVars, orchVars, lastCall, secretStorage>>

\* lines 46-70: the Groq key has arrived, the provider is registered when
\* there is a key; without any provider the setup dialog is shown, otherwise
\* setCurrentProvider is called for the configured or the first provider and
\* runs up to its await of isAvailable
RaceGroqKey ==
  /\ overlapping[1].pc = "awaitGroqKey"
  /\ IF "groq" \in secrets
       THEN registerProvider("groq", OrchInstance("groq"))
       ELSE UNCHANGED <<providers, currentProvider>>
  /\ overlapping' =
       [overlapping EXCEPT ![1] =
          IF providers' = <<>> THEN RaceFrame("done", Undefined)
          ELSE RaceFrame("awaitAvailable",
                         IF MapHas(providers', translationProvider)
                           THEN translationProvider ELSE providers'[1].id)]
  /\ UNCHANGED <<translationProvider, mpc, mframe, mcalls, mresult, lastError,
                 fileVars, orchVars, lastCall, secretStorage>>

\* part_003 lines 168-173: the second invocation calls setCurrentProvider(id):
\* an identifier that is not registered throws, otherwise isAvailable of the
\* provider is awaited
RaceSetCurrentBegins ==
  /\ overlapping[2].pc = "start"
  /\ overlapping' =
       [overlapping EXCEPT ![2] =
          IF MapHas(providers, overlapping[2].id)
            THEN [@ EXCEPT !.pc = "awaitAvailable"]
            ELSE [@ EXCEPT !.pc = "done"]]
  /\ lastError' = IF MapHas(providers, overlapping[2].id)
                    THEN lastError ELSE "not found"
  /\ UNCHANGED <<providers, currentProvider, translationProvider, mpc, mframe,
                 mcalls, mresult, fileVars, orchVars, lastCall, secretStorage>>

\* part_003 lines 174-178: isAvailable has resolved with true (the provider
\* was built with a key): the identifier becomes current and is written to
\* the setting
RaceSetCurrentResumes ==
  \E inv \in Invocations :
    /\ overlapping[inv].pc = "awaitAvailable"
    /\ currentProvider' = overlapping[inv].id
    /\ translationProvider' = overlapping[inv].id
    /\ overlapping' = [overlapping EXCEPT ![inv] = [@ EXCEPT !.pc = "done"]]
    /\ UNCHANGED <<providers, mpc, mframe, mcalls, mresult, lastError,
                   fileVars, orchVars, lastCall, secretStorage>>

\* the manager as an earlier invocation left it (a provider is current and
\* configured), the keys stored now, and the identifier the second invocation
\* asks for
InitRace ==
  /\ \E registered \in (SUBSET {"openai", "groq"}) \ {{}} :
       /\ providers = RegistryOf(registered)
       /\ currentProvider \in registered
       /\ translationProvider \in registered
  /\ mpc = "idle"
  /\ mframe = NoFrame
  /\ mcalls = <<>>
  /\ mresult = NoResult
  /\ lastError = "none"
  /\ NoFiles
  /\ secrets \in SUBSET {"openai", "groq"}
  /\ workspace = <<>>
  /\ translationCache = <<>>
  /\ opc = "idle"
  /\ oframe = NoOFrame
  /\ aframe = NoAFrame
  /\ tframe = NoTFrame
  /\ tthist = <<>>
  /\ report = NoReport
  /\ lastCall = NoCall
  /\ NoKeySetup
  /\ \E id \in {"openai", "groq"} :
       overlapping = <<RaceFrame("start", Undefined), RaceFrame("start", id)>>

NextRace ==
  \/ RaceUnregisterAll
  \/ RaceOpenAIKey
  \/ RaceGroqKey
  \/ RaceSetCurrentBegins
  \/ RaceSetCurrentResumes

SpecRace == InitRace /\ [][NextRace]_vars

----------------------------------------------------------------------------
(***************************************************************************)
(* Properties of the provider manager (checked under SpecPM).              *)
(***************************************************************************)
\* the provider registered besides id, when exactly two are registered
OtherIds(id) == {providers[i].id : i \in 1..Len(providers)} \ {id}

\* a manager.translate call has settled after calling the provider that was
\* current when it started
CallSettled == mpc = "returned" /\ mframe.provider # Undefined

\* C2: with two registered providers, the current one's translate always
\* failing and the other's always succeeding, manager.translate returns the
\* other provider's result and the other provider is current afterwards,
\* whichever of the two was registered first.
C2_Failover ==
  ( /\ CallSettled
    /\ Len(providers) = 2
    /\ MapGet(providers, mframe.provider).mode = "down"
    /\ \A id \in OtherIds(mframe.provider) : MapGet(providers, id).mode = "up" )
  => /\ mresult.kind = "value"
     /\ mresult.by \in OtherIds(mframe.provider)
     /\ currentProvider = mresult.by
     /\ Len(mcalls) = 2
     /\ mcalls[2].id = mresult.by

\* C2 witness: the current provider was registered second, it failed, and the
\* call returned the result of the provider registered first
C2_Witness ==
  /\ CallSettled
  /\ Len(providers) = 2
  /\ providers[2].id = mframe.provider
  /\ providers[2].p.mode = "down"
  /\ providers[1].p.mode = "up"
  /\ mresult.kind = "value"
  /\ mresult.by = providers[1].id
  /\ currentProvider = providers[1].id

\* C3: during one manager.translate call every registered provider's
\* translate is invoked at most once; in particular the provider that failed
\* first is not invoked a second time.
C3_EachProviderOnce ==
  \A i, j \in 1..Len(mcalls) : i < j => mcalls[i].id # mcalls[j].id

\* C4: when the current provider and every fallback fail, manager.translate
\* raises the error of the first call, the one made to the originally current
\* provider, with its status code.
C4_OriginalErrorRaised ==
  (CallSettled /\ mresult.kind = "error")
  => /\ mresult.call = 1
     /\ mresult.by = mframe.provider
     /\ mcalls[1].id = mframe.provider
     /\ mresult.statusCode = mcalls[1].statusCode

\* C4 witness: a fallback failed with another status than the first call and
\* the call raised
C4_Witness ==
  /\ CallSettled
  /\ mresult.kind = "error"
  /\ Len(mcalls) >= 2
  /\ mcalls[1].statusCode = 401
  /\ mcalls[2].statusCode = 429
  /\ mresult.statusCode = 401

\* C5: the current provider is unset or a key of the registry.
C5_CurrentRegistered ==
  currentProvider = Undefined \/ MapHas(providers, currentProvider)

\* C5 witness: the current provider was unregistered while another provider
\* stays registered
C5_Witness ==
  /\ mpc = "idle"
  /\ Len(providers) >= 1
  /\ currentProvider = Undefined

\* the manager is between two operations and what a translate call leaves
\* behind stays as it is
ManagerIdleStep ==
  /\ mpc = "idle"
  /\ UNCHANGED <<mpc, mframe, mcalls, mresult>>

\* the registry before and after differ at most in the entry of id
OthersKept(id) ==
  \A o \in ProviderIds \ {id} :
    /\ MapHas(providers', o) = MapHas(providers, o)
    /\ MapHas(providers, o) => MapGet(providers', o) = MapGet(providers, o)

\* C18: setCurrentProvider(id) fails with 'not found' when id is not in the
\* registry and with 'not available' when the provider's isAvailable() is
\* false, and then leaves the current provider and the persisted setting as
\* they were; otherwise id is current and persisted afterwards.
C18_SetCurrentProvider ==
  [][\A id \in ProviderIds :
       (ManagerIdleStep /\ setCurrentProvider(id) /\ UNCHANGED providers)
       => IF ~MapHas(providers, id)
            THEN /\ lastError' = "not found"
                 /\ currentProvider' = currentProvider
                 /\ translationProvider' = translationProvider
          ELSE IF ~IsAvailable(MapGet(providers, id))
            THEN /\ lastError' = "not available"
                 /\ currentProvider' = currentProvider
                 /\ translationProvider' = translationProvider
          ELSE /\ lastError' = "none"
               /\ currentProvider' = id
               /\ translationProvider' = id]_vars

\* C18 witness: selecting a registered provider that is not available has
\* failed, and the provider selected and persisted before is still current
C18_Witness ==
  /\ lastError = "not available"
  /\ MapHas(providers, currentProvider)
  /\ translationProvider = currentProvider
  /\ \E i \in 1..Len(providers) :
       providers[i].id # currentProvider /\ ~IsAvailable(providers[i].p)

\* C19: registerProvider(id, p) puts p into the registry under id and leaves
\* the other entries alone; id becomes current exactly when no provider was
\* current before, otherwise the current provider stays, also when id was
\* registered already.
C19_RegisterProvider ==
  [][\A id \in ProviderIds, p \in ProviderInstances :
       (ManagerIdleStep /\ registerProvider(id, p)
          /\ UNCHANGED translationProvider)
       => /\ MapHas(providers', id)
          /\ MapGet(providers', id) = p
          /\ OthersKept(id)
          /\ currentProvider' =
               IF currentProvider = Undefined THEN id ELSE currentProvider]_vars

\* C19 witness: a second provider is in the registry and the provider
\* registered first is still current, no selection having been made
C19_Witness ==
  /\ mpc = "idle"
  /\ Len(providers) = 2
  /\ currentProvider = providers[1].id
  /\ translationProvider = Undefined

\* current is unset and a translate call begins
TranslateWithoutCurrent ==
  /\ mpc = "idle"
  /\ mpc' # "idle"
  /\ currentProvider = Undefined

\* C20: unregisterProvider(id) takes id out of the registry and leaves the
\* other entries alone; when id was current, current becomes unset and no
\* other provider takes its place, so that translate fails with 'not
\* configured' whatever the registry holds; when id was not current, current
\* stays.
C20_UnregisterProvider ==
  [][/\ \A id \in ProviderIds :
          (ManagerIdleStep /\ unregisterProvider(id)
             /\ UNCHANGED translationProvider)
          => /\ ~MapHas(providers', id)
             /\ OthersKept(id)
             /\ currentProvider' =
                  IF currentProvider = id THEN Undefined ELSE currentProvider
     /\ TranslateWithoutCurrent
          => /\ mpc' = "returned"
             /\ lastError' = "not configured"
             /\ mresult'.kind = "error"
             /\ mcalls' = <<>>
             /\ currentProvider' = Undefined]_vars

\* C20 witness: translate has failed with 'not configured' while a provider
\* is registered
C20_Witness ==
  /\ mpc = "returned"
  /\ lastError = "not configured"
  /\ currentProvider = Undefined
  /\ Len(providers) >= 1

----------------------------------------------------------------------------
(***************************************************************************)
(* Properties of the merge without translation (checked under SpecCodec).  *)
(***************************************************************************)
hello == AllKeys[1]

\* the "key": "value" pairs found between the braces of the table of content
TableEntries(content) ==
  LET m == MapRegex(content)
  IN  IF m.ok
        THEN KeyRegexMatches(SubSeq(content, m.open + 1, m.close - 1), 1, TRUE)
        ELSE <<>>

\* the last call merged [hello], without translation, into the empty table
MergedHelloIntoEmpty ==
  /\ lastMerge.wrote
  /\ lastMerge.before = tplEmpty
  /\ lastMerge.keys = <<hello>>
  /\ ~lastMerge.useTranslation

\* C1: merging the key list [hello] with translation disabled into
\* `Map<String, String> en = {};` yields a file whose table holds exactly the
\* entry "hello": "hello", placed between the braces, with every character
\* outside the braces unchanged.
C1_EmptyTableRoundTrip ==
  MergedHelloIntoEmpty
  => LET after == disk[lastMerge.path]
         m == MapRegex(after)
         n == MapRegex(tplEmpty)
     IN  /\ m.ok
         /\ TableEntries(after) = <<[key |-> hello, value |-> hello]>>
         /\ SubSeq(after, 1, m.open) = SubSeq(tplEmpty, 1, n.open)
         /\ SubSeq(after, m.close, Len(after))
              = SubSeq(tplEmpty, n.close, Len(tplEmpty))

\* the step merges the key list of the previous call into the same file again
SameMergeAgain ==
  /\ lastMerge.path \in DOMAIN disk
  /\ lastMerge'.path = lastMerge.path
  /\ lastMerge'.keys = lastMerge.keys

\* C11: when the merge is applied again to the same locale file with the same
\* key list, the second application finds no new key, adds no entry, does
\* not write, and leaves the file as the first application left it.
C11_MergeIdempotent ==
  [][SameMergeAgain
     => /\ lastMerge'.returned = 0
        /\ ~lastMerge'.wrote
        /\ disk' = disk]_vars

\* no key occurs twice among the "key": "value" pairs of content
KeysUnique(content) ==
  With(extractExistingKeys(content), LAMBDA ks :
    \A i, j \in 1..Len(ks) : i < j => ks[i] # ks[j])

\* C12: a locale file whose keys are unique keeps unique keys through every
\* sequence of merges of duplicate-free key lists: no key occurs twice in it.
C12_KeysUnique == \A f \in DOMAIN disk : KeysUnique(disk[f])

\* xs is a prefix of ys
IsPrefix(xs, ys) == Len(xs) <= Len(ys) /\ SubSeq(ys, 1, Len(xs)) = xs

\* C13: a merge that writes keeps every entry the table had, with its key and
\* value, in the same order and ahead of the appended entries, and leaves
\* everything up to the opening brace and from the closing brace on as it was.
C13_AppendOnly ==
  lastMerge.wrote
  => With(lastMerge.before, LAMBDA before :
     With(disk[lastMerge.path], LAMBDA after :
     With(MapRegex(before), LAMBDA m :
     With(MapRegex(after), LAMBDA n :
       /\ n.ok
       /\ SubSeq(after, 1, n.open) = SubSeq(before, 1, m.open)
       /\ SubSeq(after, n.close, Len(after))
            = SubSeq(before, m.close, Len(before))
       /\ IsPrefix(TableEntries(before), TableEntries(after))))))

----------------------------------------------------------------------------
(***************************************************************************)
(* Properties of addKeysWithTranslation (checked under Spec and FairSpec). *)
(***************************************************************************)
\* a locale file is being translated: between the first translateText call
\* for it and its write
Translating == opc \in {"key", "ttAwait", "backoff", "pause"}

\* C6: once a non-base locale file with new keys and a table has entered
\* translation, its write is eventually reached and the loop moves on,
\* whatever the translation requests answer, every request failing included.
C6_ForwardProgress == Translating ~> (opc = "loop")

\* C7: a request answered with 429 is retried once: translateText asks the
\* manager at most twice for one key, the request and its one retry, however
\* long the backend keeps answering 429.
C7_RetriedOnce == tframe.attempts <= 2

\* C8 as stated: whenever translateText has been called twice with the same
\* (text, locale), the second call did not ask the manager and returned what
\* the first call returned.
C8_SecondCallNeverAsks ==
  \A k \in DOMAIN tthist :
    tthist[k].n = 2 => /\ ~tthist[k].laterAsked
                       /\ tthist[k].last = tthist[k].first

\* C8: whenever translateText has been called twice with the same
\* (text, locale) and the first call returned a provider translation that
\* passed validation, the second call did not ask the manager and returned
\* what the first call returned, whichever provider is current.
C8_CacheHit ==
  \A k \in DOMAIN tthist :
    (tthist[k].n = 2 /\ tthist[k].firstCached)
    => /\ ~tthist[k].laterAsked
       /\ tthist[k].last = tthist[k].first

\* C8 witness: a second call for the same (text, locale) was served from the
\* cache after the first call had made the manager switch providers
C8_Witness ==
  /\ \E k \in DOMAIN tthist :
       /\ tthist[k].n = 2
       /\ tthist[k].firstCached
       /\ tthist[k].last = [kind |-> "value", text |-> txtArabic]
  /\ Len(providers) = 2
  /\ currentProvider # translationProvider

\* the value the file will carry for key, read from the state the settling
\* step leads to: the translations of the running batch, the entries of a
\* finished batch, or the written file
ValueIn(content, key) ==
  LET pairs == KeyRegexMatches(content, 1, TRUE)
      at == {i \in 1..Len(pairs) : pairs[i].key = key}
  IN  IF at = {} THEN <<>> ELSE pairs[CHOOSE i \in at : TRUE].value

KeptNext(key) ==
  IF opc' = "key" THEN Lookup(aframe'.translations, key)
  ELSE IF opc' = "pause" THEN ValueIn(Join(aframe'.newEntries, <<44, 10>>), key)
  ELSE ValueIn(disk'[aframe.path], key)

\* the manager has answered the request of an ar locale with a text that
\* holds no Arabic-script code point
NonArabicAnswer ==
  /\ opc = "ttAwait"
  /\ mpc = "returned"
  /\ mresult.kind = "value"
  /\ LanguageCode(tframe.locale) = <<97, 114>>
  /\ ~\E i \in 1..Len(mresult.text) : IsArabicScript(mresult.text[i])

\* C9: for a locale whose language code is ar, a translation without any
\* Arabic-script code point is rejected: the value kept and written for the
\* key is the English table's value for it, or the key when the table has
\* none.
C9_ValidationFallback ==
  [][(NonArabicAnswer /\ opc' # "ttAwait")
     => KeptNext(tframe.text) = EnglishOrKey(englishTranslations, tframe.text)]_vars

\* C9 witness: a Latin-only answer for a key of an ar file whose English
\* value differs from the key
C9_Witness ==
  /\ NonArabicAnswer
  /\ mresult.text = txtLatin
  /\ Lookup(englishTranslations, tframe.text) # <<>>
  /\ Lookup(englishTranslations, tframe.text) # tframe.text

\* the file at position i of the target list is its first base-locale file
FirstBaseAt(i) ==
  /\ IsEnglishLocale(getLocaleFromFilename(workspace[i]))
  /\ \A j \in 1..(i - 1) : ~IsEnglishLocale(getLocaleFromFilename(workspace[j]))

CurrentKey == aframe.newKeys[aframe.i + aframe.b]

\* translateText is about to return with a cached translation (line 553)
CacheServes ==
  /\ opc \in {"key", "backoff"}
  /\ CachedTranslation(translationCache, CurrentKey, aframe.locale) # <<>>

\* translateText is about to return or throw after manager.translate has
\* settled with anything but status 429
ManagerServes ==
  /\ opc = "ttAwait"
  /\ mpc = "returned"
  /\ ~(mresult.kind = "error" /\ mresult.statusCode = 429)

\* what that translateText call hands to addKeysToTranslationFile
Handed ==
  IF CacheServes
    THEN [kind |-> "value",
          text |-> CachedTranslation(translationCache, CurrentKey, aframe.locale)]
    ELSE TranslateTextResult(mresult, CurrentKey, aframe.locale)

\* the value the claim prescribes for the current key
PrescribedValue ==
  IF /\ Handed.kind = "value"
     /\ Handed.text # <<>>
     /\ isValidTranslationForLocale(Handed.text, aframe.locale)
    THEN Handed.text
    ELSE EnglishOrKey(englishTranslations, CurrentKey)

AtFileWithoutTable ==
  /\ opc = "loop"
  /\ oframe.idx <= Len(oframe.translationFiles)
  /\ ~MapRegex(disk[oframe.translationFiles[oframe.idx]]).ok

\* C15: when a locale file holds no table declaration, the file is left as it
\* is, an error naming the file is shown, and the invocation goes on with the
\* next locale file, its counts unchanged.
C15_ParseFailureIsolated ==
  [][AtFileWithoutTable
     => /\ disk' = disk
        /\ lastMerge'.noMap
        /\ lastMerge'.path = oframe.translationFiles[oframe.idx]
        /\ opc' = "loop"
        /\ oframe'.idx = oframe.idx + 1
        /\ oframe'.translationFiles = oframe.translationFiles
        /\ oframe'.addedCount = oframe.addedCount]_vars

\* C15 witness: the file after the one without a table has been written and
\* the one without a table is as it was
C15_Witness ==
  /\ Len(oframe.translationFiles) = 2
  /\ oframe.idx = 3
  /\ disk[oframe.translationFiles[1]] = tplNoMap
  /\ lastMerge.path = oframe.translationFiles[2]
  /\ lastMerge.wrote

\* manager.translate has raised inside translateText: the current provider
\* and every fallback have failed
ManagerRaised ==
  /\ opc = "ttAwait"
  /\ mpc = "returned"
  /\ mresult.kind = "error"

\* C16: when manager.translate raises after its fallbacks are exhausted, the
\* user gets the dialog that offers 'Switch Provider' and 'Proceed Without
\* Translation'.
C16_ExhaustionSurfaced == ManagerRaised ~> (opc = "choice")

\* the content a locale file of the workspace had when the command started
InitialContent(f) ==
  With(CHOOSE w \in Workspaces : w.files = workspace, LAMBDA w :
    w.contents[CHOOSE i \in 1..Len(w.files) : w.files[i] = f])

\* the number of entries the invocation has appended to the files of the set
RECURSIVE AppendedIn(_)
AppendedIn(files) ==
  IF files = {} THEN 0
  ELSE With(CHOOSE f \in files : TRUE, LAMBDA f :
         Len(KeyRegexMatches(disk[f], 1, FALSE))
         - Len(KeyRegexMatches(InitialContent(f), 1, FALSE))
         + AppendedIn(files \ {f}))

\* the locale files the invocation has written
WrittenFiles == {f \in DOMAIN disk : disk[f] # InitialContent(f)}

\* the count of added keys in the final message is the number of entries
\* appended over all files
ReportedKeysAccurate ==
  report.shown => report.addedCount = AppendedIn(DOMAIN disk)

\* C17: in the final message the number of keys added is the number of
\* entries appended over all locale files, the base locale's included, and
\* the number of files is the number of locale files the invocation touched
\* (the files it wrote, or else the files it processed).
C17_ReportAccurate ==
  /\ ReportedKeysAccurate
  /\ report.shown => \/ report.files = Cardinality(WrittenFiles)
                     \/ report.files = Len(workspace)

C25_ErroredFilesCounted ==
  (report.shown /\ \E f \in DOMAIN disk : ~MapRegex(disk[f]).ok) =>
    report.errorCount > 0

\* C26: manager.translate leaves the current provider as it was unless it
\* returns the result of another provider, which is then the current one;
\* when the current provider and every fallback have failed, the current
\* provider is the one of before the call.
C26_CurrentOnlyMovesToSuccess ==
  (mpc = "returned" /\ mframe.provider # Undefined) =>
    \/ currentProvider = mframe.provider
    \/ mresult.kind = "value" /\ mresult.by = currentProvider

\* C27: a file of locale en or en_US never enters the translating branch of
\* addKeysToTranslationFile, the step that writes it makes no translation
\* call, and every key it gains has the key as value.
C27_BaseLocaleNotTranslated ==
  [][\A f \in DOMAIN disk :
       Basename(f, extDart) \in {locEnUS, locEn} =>
         /\ aframe'.path # f
         /\ disk'[f] # disk[f] =>
              /\ mpc' = mpc /\ mcalls' = mcalls /\ tthist' = tthist
              /\ tframe' = tframe
              /\ \A i \in 1..Len(oframe.keys) :
                   ~Includes(extractExistingKeys(disk[f]), oframe.keys[i]) =>
                     ValueIn(disk'[f], oframe.keys[i]) = oframe.keys[i]]_vars

\* a file of locale en was written by the loop that translates, after the
\* base file en_US
C27_Witness ==
  /\ lastMerge.path = Path(dirLang, locEn)
  /\ lastMerge.useTranslation
  /\ lastMerge.wrote
  /\ ValueIn(disk[Path(dirLang, locEn)], AllKeys[1]) = AllKeys[1]
  /\ oframe.enUsFile = Path(dirLang, locEnUS)

\* C28: when the file that is processed next holds every supplied key, the
\* step skips it: no file is written, no translation call is made, the
\* translation cache and the count of added keys stay as they are, and the
\* loop goes on.
C28_NoNewKeysSkipped ==
  [][\A file \in DOMAIN disk :
       ( /\ \/ opc = "base" /\ oframe'.enUsFile = file
            \/ /\ opc = "loop"
               /\ oframe.idx <= Len(oframe.translationFiles)
               /\ oframe.translationFiles[oframe.idx] = file
         /\ \A i \in 1..Len(oframe.keys) :
              Includes(extractExistingKeys(disk[file]), oframe.keys[i]) )
       => /\ disk' = disk
          /\ mpc' = mpc /\ mcalls' = mcalls /\ tthist' = tthist
          /\ translationCache' = translationCache
          /\ oframe'.addedCount = oframe.addedCount
          /\ opc' = "loop"]_vars

\* a file of an Arabic locale that holds the only supplied key was skipped
\* by the loop that translates
C28_Witness ==
  /\ lastMerge.path = Path(dirLocale, locArSA)
  /\ lastMerge.useTranslation
  /\ lastMerge.keys = <<AllKeys[2]>>
  /\ lastMerge.returned = 0
  /\ ~lastMerge.wrote
  /\ ~lastMerge.noMap
  /\ disk[lastMerge.path] = tplOne

\* C29: at most one provider request of an invocation is in flight at any
\* time; it is the request for the key at hand of the file at hand, the key
\* and the file do not change while a request is in flight, and a file is
\* written only when no request is in flight and it is the file at hand.
C29_OneRequestInFlight ==
  [][\E before \in {{i \in 1..Len(mcalls) : ~mcalls[i].settled}},
        pending \in {{i \in 1..Len(mcalls') : ~mcalls'[i].settled}} :
       /\ Cardinality(pending) <= 1
       /\ pending # {} =>
            /\ opc' = "ttAwait"
            /\ mframe'.text = aframe'.newKeys[aframe'.i + aframe'.b]
            /\ aframe'.path = oframe'.translationFiles[oframe'.idx]
       /\ (before # {} /\ pending # {}) =>
            /\ aframe' = aframe
            /\ oframe' = oframe
       /\ \A f \in DOMAIN disk :
            disk'[f] # disk[f] =>
              /\ pending = {}
              /\ \/ opc = "base"
                 \/ /\ oframe.idx <= Len(oframe.translationFiles)
                    /\ oframe.translationFiles[oframe.idx] = f]_vars

\* the request to the fallback provider is in flight for the second key of a
\* batch, after the request to the current provider has failed
C29_Witness ==
  /\ opc = "ttAwait"
  /\ aframe.b = 2
  /\ Len(mcalls) = 2
  /\ mcalls[1].settled /\ ~mcalls[1].ok
  /\ ~mcalls[2].settled

----------------------------------------------------------------------------
(***************************************************************************)
(* Properties of the stateless functions (checked under SpecUnits).        *)
(***************************************************************************)
\* "a".tr + 'b'.tr + "a".tr
textABA ==
  <<34, 97, 34, 46, 116, 114, 32, 43, 32, 39, 98, 39, 46, 116, 114,
    32, 43, 32, 34, 97, 34, 46, 116, 114>>

\* C21: for every text the key extraction returns the keys of all the
\* occurrences of a quoted string immediately followed by .tr (the
\* occurrences are taken from left to right, an occurrence does not start
\* inside the one before it), without a duplicate and in the order of the
\* first occurrences; a text without an occurrence, the empty text included,
\* gives the empty list; "a".tr + 'b'.tr + "a".tr gives [a, b].
C21_KeyExtraction ==
  (lastCall.fn = "scanProjectForKeys" /\ lastCall.returned) =>
    \E s \in {lastCall.text}, keys \in {lastCall.keys} :
    \E occ \in {{i \in 1..Len(s) : trRegex(s, i).ok}} :
    \E taken \in {CHOOSE T \in SUBSET occ :
                    \A i \in occ :
                      i \in T <=> ~\E j \in T : j < i /\ i <= trRegex(s, j).end} :
      /\ \A m, n \in 1..Len(keys) : keys[m] = keys[n] => m = n
      /\ \A m \in 1..Len(keys) : \E i \in taken : trRegex(s, i).key = keys[m]
      /\ \A i \in taken : Includes(keys, trRegex(s, i).key)
      /\ \A m, n \in 1..Len(keys) :
           m < n => Least({i \in taken : trRegex(s, i).key = keys[m]})
                      < Least({i \in taken : trRegex(s, i).key = keys[n]})
      /\ occ = {} => keys = <<>>
      /\ s = textABA => keys = <<<<97>>, <<98>>>>

\* the extraction has returned from a text where a key occurs twice
C21_Witness ==
  /\ lastCall.fn = "scanProjectForKeys"
  /\ lastCall.returned
  /\ lastCall.text = textABA
  /\ lastCall.keys = <<<<97>>, <<98>>>>

\* C23: file discovery keeps a candidate path exactly when its whole file
\* name is two lowercase letters, optionally followed by an underscore and
\* two uppercase letters, then the extension; every other candidate is
\* filtered out.
C23_OnlyLocaleFileNames ==
  (lastCall.fn = "findTranslationFiles" /\ lastCall.returned) =>
    lastCall.kept =
      SelectSeq(lastCall.files, LAMBDA file :
        \E name \in {file.base} :
          /\ Len(name) - Len(extDart) \in {2, 5}
          /\ SubSeq(name, Len(name) - Len(extDart) + 1, Len(name)) = extDart
          /\ IsLower(name[1]) /\ IsLower(name[2])
          /\ Len(name) - Len(extDart) = 5 =>
               name[3] = 95 /\ IsUpper(name[4]) /\ IsUpper(name[5]))

\* C24: for both providers, a response with an HTTP status of 400 or more
\* makes translate fail with an error that carries that status, whatever the
\* body is.
C24_StatusCarried ==
  (lastCall.fn = "translate" /\ lastCall.returned /\ lastCall.statusCode >= 400) =>
    /\ ~lastCall.result.ok
    /\ lastCall.result.statusCode = lastCall.statusCode

\* C30: for both providers, when translate resolves its result is a defined,
\* non-empty, trimmed string without line feed and without . , ; : and a
\* response whose content is missing or blank is rejected.
C30_ResolvedTextSanitised ==
  (lastCall.fn = "translate" /\ lastCall.returned) =>
    \E r \in {lastCall.result} :
      /\ r.ok =>
           /\ r.defined
           /\ r.text # <<>>
           /\ \A i \in 1..Len(r.text) : r.text[i] # 10 /\ ~IsPunctuation(r.text[i])
           /\ Trim(r.text) = r.text
      /\ (~lastCall.body.hasContent \/ Trim(lastCall.body.content) = <<>>) => ~r.ok

\* a call of translateWithOpenAI that allows at least one attempt
OpenAICall == lastCall.fn = "translateWithOpenAI" /\ lastCall.maxRetries >= 1

C40_RetryableClasses ==
  (OpenAICall /\ lastCall.pc \in {"delay", "rejected"}
     /\ lastCall.attempt < lastCall.maxRetries) =>
    (lastCall.pc = "delay" <=>
       \/ lastCall.event.kind \in {"error", "timeout"}
       \/ /\ lastCall.event.kind = "end"
          /\ \/ lastCall.event.statusCode = 429
             \/ lastCall.event.statusCode >= 500
             \/ /\ lastCall.event.statusCode < 400
                /\ lastCall.event.body.json
                /\ lastCall.event.body.error
                /\ lastCall.event.body.code = "rate_limit_exceeded")

\* C39: when setOpenAIApiKey or setGroqApiKey has thrown, the secret storage
\* is what it was before the call: the key entered is not stored and the key
\* stored before is still stored.
C39_FailedSetupKeepsStore ==
  (lastCall.fn \in {"setOpenAIApiKey", "setGroqApiKey"} /\ lastCall.pc = "rejected")
    => secretStorage = lastCall.before

\* the identifiers with a stored key, OpenAI first
StoredIds ==
  (IF "openai" \in secrets THEN <<"openai">> ELSE <<>>)
    \o (IF "groq" \in secrets THEN <<"groq">> ELSE <<>>)

\* C37: when initializeTranslationProviders runs with at least one stored
\* key, afterwards the registry holds exactly the providers with a stored key,
\* openai before groq, the current provider is the configured one if it is
\* registered and the first registered one otherwise, and a provider
\* registered before whose key is not stored is gone.
C37_RegistryFromCredentials ==
  [][(mpc = "idle" /\ secrets # {} /\ initializeTranslationProviders(secrets)) =>
       /\ MapKeys(providers') = StoredIds
       /\ currentProvider' = IF translationProvider \in secrets
                               THEN translationProvider ELSE StoredIds[1]
       /\ \A id \in ProviderIds :
            (MapHas(providers, id) /\ id \notin secrets) => ~MapHas(providers', id)]_vars

\* both keys are stored and the registry is the one built from them, with
\* the configured Groq provider current
C37_Witness ==
  /\ mpc = "idle"
  /\ secrets = {"openai", "groq"}
  /\ providers = RegistryOf(secrets)
  /\ translationProvider = "groq"
  /\ currentProvider = "groq"

\* C36: the steps of manager.translate leave the translationProvider setting
\* as it is, and initializeTranslationProviders makes the configured provider
\* current whenever its key is stored, whatever provider a failover left
\* current.
C36_FailoverNotCarriedOver ==
  [][/\ mpc \in {"awaitCurrent", "awaitFallback"} =>
          translationProvider' = translationProvider
     /\ (mpc = "idle" /\ translationProvider \in secrets
           /\ initializeTranslationProviders(secrets)) =>
          /\ currentProvider' = translationProvider
          /\ translationProvider' = translationProvider]_vars

\* a failover has made the other provider current while the setting still
\* names the configured one, whose key is stored
C36_Witness ==
  /\ mpc = "returned"
  /\ Len(mcalls) = 2
  /\ mresult.kind = "value"
  /\ mresult.by = currentProvider
  /\ currentProvider # translationProvider
  /\ translationProvider \in secrets

\* C33: an entry of the translation cache is never changed or removed, and
\* an entry is added only when manager.translate has returned a text for the
\* text and locale at hand: the entry is that text, it is not blank and it
\* passes the validation for the locale. Fallback values are not cached.
C33_CacheEntriesValidated ==
  [][/\ \A k \in DOMAIN translationCache :
          /\ k \in DOMAIN translationCache'
          /\ translationCache'[k] = translationCache[k]
     /\ \A k \in DOMAIN translationCache' \ DOMAIN translationCache :
          /\ opc = "ttAwait"
          /\ mresult.kind = "value"
          /\ k = CacheKey(tframe.text, tframe.locale)
          /\ translationCache'[k] = mresult.text
          /\ translationCache'[k] # <<>>
          /\ TrimNonEmpty(translationCache'[k])
          /\ isValidTranslationForLocale(translationCache'[k], tframe.locale)]_vars

\* one translation is cached, and for another text a fallback value was
\* returned and is not in the cache
C33_Witness ==
  /\ DOMAIN translationCache # {}
  /\ \E k \in DOMAIN tthist :
       /\ tthist[k].first.kind = "value"
       /\ ~tthist[k].firstCached
       /\ CacheKey(k[1], k[2]) \notin DOMAIN translationCache

\* C34: when two invocations that work on the same locale file have both
\* completed, the file holds an entry for every key that either of them found
\* to be new and appended.
C34_NoLostUpdate ==
  (\A inv \in Invocations : overlapping[inv].pc = "done") =>
    \A inv \in Invocations :
      \A j \in 1..Len(overlapping[inv].newKeys) :
        Includes(extractExistingKeys(disk[overlapFile]), overlapping[inv].newKeys[j])

\* C35: while one invocation runs initializeTranslationProviders and another
\* is inside setCurrentProvider, at every suspension point the current
\* provider is unset or registered.
C35_CurrentRegisteredUnderOverlap ==
  \A inv \in Invocations :
    overlapping[inv].pc \in {"awaitOpenAIKey", "awaitGroqKey", "awaitAvailable"} =>
      (currentProvider = Undefined \/ MapHas(providers, currentProvider))

\* C32: a step of addKeysWithoutTranslation on a locale file with a table
\* leaves every new key in the file with the key as its value, and makes no
\* translation call.
C32_ProceedWithoutTranslation ==
  [][~lastMerge'.noMap =>
       /\ \A key \in {lastMerge'.keys[i] : i \in 1..Len(lastMerge'.keys)} :
            ~Includes(extractExistingKeys(lastMerge'.before), key)
              => ValueIn(disk'[lastMerge'.path], key) = key
       /\ mcalls' = mcalls
       /\ mpc' = mpc]_vars

\* C38: a step that processes a locale file other than en and en_US leaves
\* the English table as it is.
C38_TableOnlyFromBase ==
  [][~IsEnglishLocale(getLocaleFromFilename(lastMerge'.path))
       => englishTranslations' = englishTranslations]_vars

=============================================================================
